---- MODULE Spec2Model ----
(***************************************************************************)
(* Report format lifecycle of gvmd (src/src/manage_sql_report_formats.c).  *)
(*                                                                         *)
(* Spec        create, delete, restore and the alerts over the SQL tables  *)
(*             and the asset directories, every filesystem call working.   *)
(* SpecNames   create, copy, modify, delete, restore with names that meet. *)
(* SpecFaults  the same operations with filesystem calls that fail.        *)
(* SpecCrash   a process crash between a directory move and its commit,    *)
(*             followed by the startup checks of the trash.                *)
(* SpecFeed    the startup check that brings the feed's formats in.        *)
(* SpecApply   apply_report_format over the dependencies of three formats. *)
(*                                                                         *)
(* Strings that the code inspects (names, values, options) are sequences   *)
(* of one-character strings, so strlen is Len and strcmp () == 0 is        *)
(* equality.  A C NULL pointer of such a string is the value NULL.         *)
(***************************************************************************)
EXTENDS Integers, Sequences, FiniteSets, TLC

(* ------------------------------ bounds -------------------------------- *)

\* Values handed out by the id sequence of report_formats.
MaxId == 3
\* Values handed out by the id sequence of report_formats_trash.
MaxTrashId == 2
\* UUIDs handed out by gvm_uuid_make () / make_uuid ().
MaxMint == 3
\* Rows of alert_method_data and alert_method_data_trash together.
MaxAlerts == 1
\* Invocations of apply_report_format on the stack.
MaxDepth == 5
\* Values of the clock m_now () reads.
MaxTime == 2
\* UUIDs handed out where names are reused and where filesystem calls fail.
MaxNameMint == 1
\* Values handed out by the id sequence of report_formats where names get
\* a number.
MaxSuffixId == 5
\* Values handed out by the id sequence of report_formats when the feed
\* adds rows too.
MaxFeedId == 4

(* ----------------------------- universe ------------------------------- *)

Users == {"u1", "u2"}
\* owner IS NULL
NoOwner == "NULL"
\* The NULL pointer of a string argument.
NULL == <<"NULL">>

\* UUIDs: a caller asks for <<"U", n>>; the feed's format has FeedUUID;
\* gvm_uuid_make () and make_uuid () give the n-th minted one.
FeedUUID == <<"F", 1>>
MintedUUID(n) == <<"M", n>>

Names == {<<"a">>, <<"b">>}

\* g_base64_decode of the base64 texts that callers send: the decoded
\* characters.
g_base64_decode(text) ==
    CASE text = "QQ==" -> <<"A">>
      [] text = "Qg==" -> <<"B">>
      [] text = "eA==" -> <<"x">>
      [] text = "eQ==" -> <<"y">>
      [] text = "eg==" -> <<"z">>
      [] text = "eCx5" -> <<"x", ",", "y">>
      [] text = "WA==" -> <<"X">>
      [] text = "MA==" -> <<"0">>
      [] text = "MQ==" -> <<"1">>
      [] text = "Mw==" -> <<"3">>
      [] text = "NQ==" -> <<"5">>
      [] text = "Ng==" -> <<"6">>
      [] OTHER -> <<>>

\* The files arrays create_report_format is called with: name, base64.
FilesGenerate == << <<"generate", "QQ==">> >>
FilesTwo == << <<"aux", "Qg==">>, <<"generate", "QQ==">> >>
FilesEmptyName == << <<"generate", "QQ==">>, <<"", "Qg==">> >>

(* ------------------------------ strings ------------------------------- *)

\* long long of the model: 32 bits, the width of the integers of TLC.
LLONG_MAX == 2147483647
LLONG_MIN == (-LLONG_MAX) - 1

isspace(c) == c \in {" ", "\t", "\n"}

\* Value of a digit character, -1 when it is none.
DigitValue(c) ==
    CASE c = "0" -> 0 [] c = "1" -> 1 [] c = "2" -> 2 [] c = "3" -> 3
      [] c = "4" -> 4 [] c = "5" -> 5 [] c = "6" -> 6 [] c = "7" -> 7
      [] c = "8" -> 8 [] c = "9" -> 9
      [] c \in {"a", "A"} -> 10 [] c \in {"b", "B"} -> 11
      [] c \in {"c", "C"} -> 12 [] c \in {"d", "D"} -> 13
      [] c \in {"e", "E"} -> 14 [] c \in {"f", "F"} -> 15
      [] OTHER -> -1

IsDigitOf(c, base) == DigitValue(c) >= 0 /\ DigitValue(c) < base

RECURSIVE SkipSpace(_, _)
SkipSpace(s, i) ==
    IF i <= Len(s) /\ isspace(s[i]) THEN SkipSpace(s, i + 1) ELSE i

\* Digits of s from i on in the given base, accumulated with the sign and
\* clamped at LLONG_MIN / LLONG_MAX as strtoll does on overflow.
RECURSIVE Accumulate(_, _, _, _, _)
Accumulate(s, i, base, neg, acc) ==
    IF i > Len(s) \/ ~IsDigitOf(s[i], base)
    THEN acc
    ELSE LET d == DigitValue(s[i]) IN
         IF neg
         THEN IF acc < (LLONG_MIN + d + base - 1) \div base
              THEN LLONG_MIN
              ELSE Accumulate(s, i + 1, base, neg, acc * base - d)
         ELSE IF acc > (LLONG_MAX - d) \div base
              THEN LLONG_MAX
              ELSE Accumulate(s, i + 1, base, neg, acc * base + d)

\* strtoll (nptr, NULL, 0)
strtoll(nptr) ==
    LET i == SkipSpace(nptr, 1)
        signed == i <= Len(nptr) /\ nptr[i] \in {"-", "+"}
        neg == signed /\ nptr[i] = "-"
        j == IF signed THEN i + 1 ELSE i
        hex == /\ j + 2 <= Len(nptr)
               /\ nptr[j] = "0"
               /\ nptr[j + 1] \in {"x", "X"}
               /\ IsDigitOf(nptr[j + 2], 16)
        oct == ~hex /\ j <= Len(nptr) /\ nptr[j] = "0"
    IN  IF hex THEN Accumulate(nptr, j + 2, 16, neg, 0)
        ELSE IF oct THEN Accumulate(nptr, j, 8, neg, 0)
        ELSE Accumulate(nptr, j, 10, neg, 0)

(* ----------------------------- parameters ----------------------------- *)

\* report_format_param_type_t for a type name; "ERROR" for any other name.
report_format_param_type_from_name(name) ==
    CASE name = "boolean" -> "BOOLEAN"
      [] name = "integer" -> "INTEGER"
      [] name = "selection" -> "SELECTION"
      [] name = "string" -> "STRING"
      [] name = "text" -> "TEXT"
      [] name = "report_format_list" -> "REPORT_FORMAT_LIST"
      [] OTHER -> "ERROR"

\* Rows of report_format_params of one report format with the given name.
ParamsNamed(rf_params, name) ==
    {i \in DOMAIN rf_params : rf_params[i].name = name}

FirstParamNamed(rf_params, name) ==
    rf_params[CHOOSE i \in ParamsNamed(rf_params, name) :
                  \A j \in ParamsNamed(rf_params, name) : i <= j]

\* sql_int of a query without rows is 0, the value of the boolean type.
report_format_param_type(rf_params, name) ==
    IF ParamsNamed(rf_params, name) = {} THEN "BOOLEAN"
    ELSE FirstParamNamed(rf_params, name).type

\* max and min start at 0 and sql_int64 leaves them when there is no row.
report_format_param_type_max(rf_params, name) ==
    IF ParamsNamed(rf_params, name) = {} THEN 0
    ELSE FirstParamNamed(rf_params, name).type_max

report_format_param_type_min(rf_params, name) ==
    IF ParamsNamed(rf_params, name) = {} THEN 0
    ELSE FirstParamNamed(rf_params, name).type_min

\* [[:alnum:]-_]
IsListChar(c) ==
    \/ DigitValue(c) >= 0
    \/ c \in {"g", "h", "i", "j", "k", "l", "m", "n", "o", "p", "q", "r", "s",
              "t", "u", "v", "w", "x", "y", "z", "-", "_"}
    \/ c \in {"G", "H", "I", "J", "K", "L", "M", "N", "O", "P", "Q", "R", "S",
              "T", "U", "V", "W", "X", "Y", "Z"}

\* ^(?:[[:alnum:]-_]+)?(?:,(?:[[:alnum:]-_])+)*$ on s from position i on:
\* every comma is followed by a character of the class.
RECURSIVE MatchesList(_, _)
MatchesList(s, i) ==
    IF i > Len(s) THEN TRUE
    ELSE IF s[i] = ","
         THEN /\ i + 1 <= Len(s)
              /\ IsListChar(s[i + 1])
              /\ MatchesList(s, i + 2)
         ELSE IsListChar(s[i]) /\ MatchesList(s, i + 1)

\* A validation that refuses the bounds themselves.
validate_param_value_open(rf_params, options, name, value) ==
    IF report_format_param_type(rf_params, name) = "INTEGER"
    THEN IF strtoll(value) <= report_format_param_type_min(rf_params, name)
         THEN 1
         ELSE IF strtoll(value)
                   >= report_format_param_type_max(rf_params, name)
         THEN 1 ELSE 0
    ELSE 0

\* validate_param_value: 0 success, 1 fail.  rf_params are the parameter
\* rows of report_format, options the option rows of param.
validate_param_value(rf_params, options, name, value) ==
    LET type == report_format_param_type(rf_params, name)
        min == report_format_param_type_min(rf_params, name)
        max == report_format_param_type_max(rf_params, name)
    IN  CASE type = "INTEGER" ->
               IF strtoll(value) < min THEN 1
               ELSE IF strtoll(value) > max THEN 1 ELSE 0
          [] type = "SELECTION" ->
               IF \E i \in DOMAIN options : options[i] = value THEN 0 ELSE 1
          [] type \in {"STRING", "TEXT"} ->
               IF Len(value) < min THEN 1
               ELSE IF Len(value) > max THEN 1 ELSE 0
          [] type = "REPORT_FORMAT_LIST" ->
               IF MatchesList(value, 1) THEN 0 ELSE 1
          [] OTHER -> 0

\* The params and params_options arrays create_report_format is called with.
ParamSelection ==
    [name |-> <<"p">>, type |-> "selection", type_min |-> NULL,
     type_max |-> NULL, value |-> <<"x">>, fallback |-> <<"y">>]

ParamInteger ==
    [name |-> <<"n">>, type |-> "integer", type_min |-> <<"1">>,
     type_max |-> <<"5">>, value |-> <<"3">>, fallback |-> <<"2">>]

ParamsNone == [params |-> <<>>, params_options |-> <<>>]

ParamsSelection ==
    [params |-> <<ParamSelection>>,
     params_options |-> << << <<"x">>, <<"y">> >> >>]

ParamsTwo ==
    [params |-> <<ParamInteger, ParamSelection>>,
     params_options |-> << <<>>, << <<"y">>, <<"x">> >> >>]

\* The value is none of the options.
ParamsInvalid ==
    [params |-> <<ParamSelection>>,
     params_options |-> << << <<"y">>, <<"z">> >> >>]

(* ------------------------------- state -------------------------------- *)

VARIABLES
    \* Table report_formats with its report_format_params and
    \* report_format_param_options rows: id -> [uuid, owner, name, flags,
    \* modification_time, signature, trust, params], params in id order,
    \* each with its options in id order.
    report_formats,
    \* Table report_formats_trash with its params and options:
    \* id -> [uuid, original_uuid, owner, name, flags, modification_time,
    \* params].
    report_formats_trash,
    \* Table resources_predefined, resource_type 'report_format': ids.
    resources_predefined,
    \* Rows [name, data] of alert_method_data.
    alert_method_data,
    \* The same for alert_method_data_trash.
    alert_method_data_trash,
    \* Next value of the id sequences and number of UUIDs minted so far.
    \* A rollback does not give a sequence value or a UUID back.
    seq_report_formats,
    seq_report_formats_trash,
    seq_uuid,
    \* Directories on disk: path -> set of <<file name, bytes>>.
    dirs,
    \* Whether GVMD_STATE_DIR/report_formats_trash exists.
    trash_root,
    \* The last operation: its arguments, the rows it worked on, its result.
    last,
    \* History: trash row id -> name, params and files of the format at the
    \* start of the soft delete that produced the row.
    deleted,
    \* History: the files of the format whose soft delete or restore the
    \* process ended in, the directories the move was between, and whether
    \* the startup checks ran since.
    crashed,
    \* The running apply_report_format: the stack of its invocations, the
    \* list used_rfps, the user, the formats whose output file cannot be
    \* made, and every invocation that returned, with what it returned.
    applying,
    \* What m_now () gives.
    now,
    \* History: the directories of the feed as the last
    \* check_db_report_formats found them, and whether there was one.
    feed_seen

tables == <<report_formats, report_formats_trash, resources_predefined,
            alert_method_data, alert_method_data_trash>>
sequences == <<seq_report_formats, seq_report_formats_trash, seq_uuid>>
disk == <<dirs, trash_root>>
history == <<deleted, crashed, applying>>
clock == <<now, feed_seen>>

(* ----------------------------- filesystem ----------------------------- *)

\* GVMD_STATE_DIR/report_formats/<owner>/<uuid>
OwnerDir(owner, uuid) ==
    [tree |-> "report_formats", owner |-> owner, name |-> uuid]

\* report_format_trash_dir of the decimal text of a trash row id
report_format_trash_dir(id) ==
    [tree |-> "report_formats_trash", owner |-> NoOwner, name |-> <<"T", id>>]

\* predefined_report_format_dir
predefined_report_format_dir(uuid) ==
    [tree |-> "predefined", owner |-> NoOwner, name |-> uuid]

\* g_file_test (dir, G_FILE_TEST_EXISTS)
g_file_test(ds, dir) == dir \in DOMAIN ds

gvm_file_remove_recurse(ds, dir) == [d \in DOMAIN ds \ {dir} |-> ds[d]]

\* An unlink that removes nothing.
unlink_nothing(ds, file) == ds

\* unlink (file): the result is not looked at.
unlink(ds, file) == [d \in DOMAIN ds \ {file} |-> ds[d]]

g_mkdir_with_parents(ds, dir) ==
    IF dir \in DOMAIN ds THEN ds ELSE ds @@ (dir :> {})

\* g_file_set_contents (dir/name, bytes)
g_file_set_contents(ds, dir, name, bytes) ==
    [ds EXCEPT ![dir] = {f \in @ : f[1] # name} \cup {<<name, bytes>>}]

\* The NULL pointer of a text that the model keeps as one string: a type
\* name, a base64 text.
NullText == "(null)"

\* A filesystem call that fails during an operation: the call and, for a
\* call made once per file or directory entry, the entry it fails at.
\* For a move by hand that fails at an entry: the entries moved before it.
NoFault == [point |-> "none", index |-> 0, moved |-> {}]
Fault(point, index) == [point |-> point, index |-> index, moved |-> {}]
FaultMove(moved) == [point |-> "exdev_move", index |-> 0, moved |-> moved]
FaultCopy(moved) == [point |-> "copy", index |-> 0, moved |-> moved]

\* What is kept of the last operation: the operation, its ultimate
\* argument, its result, the report_formats row and the
\* report_formats_trash row it found or made, and the directory it set out
\* to make.
NoDir == [tree |-> "none", owner |-> NoOwner, name |-> NULL]


(* ----------------------------- signatures ---------------------------- *)

\* A detached signature as the model keeps it: the key that made it and
\* the text it was made over.  gpgv knows the key "trusted".
Signature(key, signed) == [key |-> key, signed |-> signed]

\* The text that create_report_format and verify_report_format hand to
\* gpgv, kept as the sequence of its pieces: the UUID, then name and
\* base64 content of every file, then the pieces of every param.
FormatText(uuid, files, params) ==
    [uuid |-> uuid, files |-> files, params |-> params]

\* No signature: the NULL pointer, and the empty text of the column.
NoSignature == Signature("NULL", FormatText(NULL, <<>>, <<>>))

\* GVM_NVT_DIR/report_formats/<uuid>.asc (tree "nvt") and
\* GVMD_STATE_DIR/signatures/report_formats/<uuid>.asc (tree
\* "signatures"), a link to a file of the first tree.
SignatureFile(tree, uuid) == [tree |-> tree, owner |-> NoOwner, name |-> uuid]

\* find_signature ("report_formats", uuid, ...): the signature of the feed;
\* when the feed has no such file, the signature that the private link
\* leads to, with the UUID in the name of that file.
find_signature(ds, uuid) ==
    LET feed == SignatureFile("nvt", uuid)
        private == SignatureFile("signatures", uuid)
        real == SignatureFile("nvt", (CHOOSE f \in ds[private] : TRUE)[2])
        content(file) == (CHOOSE f \in ds[file] : TRUE)[2]
    IN  IF g_file_test(ds, feed)
        THEN [ret |-> 0, signature |-> content(feed), uuid |-> NULL]
        ELSE IF g_file_test(ds, private) /\ g_file_test(ds, real)
        THEN [ret |-> 0, signature |-> content(real), uuid |-> real.name]
        ELSE [ret |-> -1, signature |-> NoSignature, uuid |-> NULL]

\* gpgv: 0 for a signature that a known key made over the text, 1 for one
\* that a known key made over another text, 2 when it cannot check.
gpgv(installer, signature) ==
    IF signature.key # "trusted" THEN 2
    ELSE IF signature.signed = installer THEN 0 ELSE 1

\* How a run of the verifier can go: it runs and exits, a signal ends it,
\* g_spawn_sync fails (exit_status then holds what the stack held), or a
\* temporary file cannot be made or written.
Verifier(how, exit_status) == [how |-> how, exit_status |-> exit_status]

VerifierRuns == Verifier("exit", 0)

\* WEXITSTATUS
WEXITSTATUS(status) == (status \div 256) % 256

\* The result of a signature block that ran no verifier.
NotVerified(ret) == [ret |-> ret, trust |-> "TRUST_UNKNOWN", temp |-> {}]

\* verify_signature: the result, the trust, and the files in /tmp that it
\* made and did not remove.  mkstemp of the installer file fails
\* ("mkstemp"), or the write of that file ("write_installer"), or mkstemp
\* of the signature file ("mkstemp_signature"), or the write of that file
\* ("write_signature"); otherwise the verifier is spawned and both files
\* are removed at the end.
verify_signature(installer, signature, verifier) ==
    LET exit_status ==
            CASE verifier.how = "exit" -> 256 * gpgv(installer, signature)
              [] verifier.how = "signal" -> 9
              [] OTHER -> verifier.exit_status
        verified(trust) == [ret |-> 0, trust |-> trust, temp |-> {}]
    IN  IF verifier.how = "mkstemp" THEN NotVerified(-1)
        ELSE IF verifier.how \in {"write_installer", "mkstemp_signature"}
        THEN [NotVerified(-1) EXCEPT !.temp = {"gvmd-installer"}]
        ELSE IF verifier.how = "write_signature"
        THEN [NotVerified(-1)
                 EXCEPT !.temp = {"gvmd-installer", "gvmd-signature"}]
        ELSE IF verifier.how = "exit" /\ WEXITSTATUS(exit_status) = 0
        THEN verified("TRUST_YES")
        ELSE IF WEXITSTATUS(exit_status) = 1
        THEN verified("TRUST_NO")
        ELSE verified("TRUST_UNKNOWN")

\* The text of a file name.
FileNameText(name) ==
    CASE name = "generate" -> <<"g", "e", "n", "e", "r", "a", "t", "e">>
      [] name = "aux" -> <<"a", "u", "x">>
      [] OTHER -> <<>>

\* strcoll in the locale "C": the difference of the first bytes that
\* differ.
RECURSIVE strcoll(_, _)
strcoll(one, two) ==
    LET bytes == <<"a", "e", "g", "n", "r", "t", "u", "x">>
        byte(c) == CHOOSE i \in DOMAIN bytes : bytes[i] = c
    IN  IF one = <<>> /\ two = <<>> THEN 0
        ELSE IF one = <<>> THEN -1
        ELSE IF two = <<>> THEN 1
        ELSE IF Head(one) # Head(two)
             THEN byte(Head(one)) - byte(Head(two))
        ELSE strcoll(Tail(one), Tail(two))

\* compare_files of two entries of the files array.
compare_files(one, two) ==
    strcoll(FileNameText(one[1]), FileNameText(two[1]))

\* A sort that leaves the array as it is.
g_ptr_array_sort_nothing(files) == files

\* g_ptr_array_sort (files, compare_files): a stable sort.
RECURSIVE g_ptr_array_sort(_)
g_ptr_array_sort(files) ==
    IF files = <<>> THEN <<>>
    ELSE LET sorted == g_ptr_array_sort(SubSeq(files, 1, Len(files) - 1))
             file == files[Len(files)]
             before == Cardinality({i \in DOMAIN sorted :
                                       compare_files(sorted[i], file) <= 0})
         IN  SubSeq(sorted, 1, before) \o <<file>>
             \o SubSeq(sorted, before + 1, Len(sorted))

\* Calls of create_report_format: uuid, name, files, params, signature,
\* whether the caller may create_report_format, the filesystem call that
\* fails, and how the verifier goes.
CreateRequest(uuid, name, files, array, may, fault) ==
    [uuid |-> uuid, name |-> name, files |-> files, array |-> array,
     may |-> may, fault |-> fault, signature |-> NoSignature,
     verifier |-> VerifierRuns]

NoRequest == CreateRequest(NULL, <<>>, <<>>, ParamsNone, FALSE, NoFault)

Last(op, ultimate, ret, row, trash, dir) ==
    [op |-> op, ultimate |-> ultimate, ret |-> ret, row |-> row,
     trash |-> trash, dir |-> dir, caller |-> NoOwner,
     request |-> NoRequest, summary |-> NULL, param_name |-> NULL,
     param_value |-> NullText, staged |-> {}, temp |-> {},
     transaction |-> "none"]

\* The same for an operation on everything a user has.
LastBy(caller, op, ret) ==
    [Last(op, 0, ret, 0, 0, NoDir) EXCEPT !.caller = caller]

(* ------------------------------- tables ------------------------------- *)

\* A lookup that finds no row.
resource_predefined_never(predefined, resource) == FALSE

\* resource_predefined: whether resources_predefined has a row of the
\* resource.
resource_predefined(predefined, resource) == resource \in predefined

\* report_format_predefined
report_format_predefined(report_format) ==
    resource_predefined(resources_predefined, report_format)

\* Access of the current user to a row: its owner, or anyone for a row
\* without owner.
acl_user_has_access(row, caller) ==
    row.owner = caller \/ row.owner = NoOwner

\* find_report_format_with_permission: the row id, 0 when there is none.
find_report_format_with_permission(uuid, caller) ==
    LET found == {id \in DOMAIN report_formats :
                     /\ report_formats[id].uuid = uuid
                     /\ acl_user_has_access(report_formats[id], caller)}
    IN  IF found = {} THEN 0
        ELSE CHOOSE id \in found : \A other \in found : id <= other

\* find_trash ("report_format", uuid, &resource)
find_trash(uuid, caller) ==
    LET found == {id \in DOMAIN report_formats_trash :
                     /\ report_formats_trash[id].uuid = uuid
                     /\ report_formats_trash[id].owner = caller}
    IN  IF found = {} THEN 0
        ELSE CHOOSE id \in found : \A other \in found : id <= other

\* resource_with_name_exists (name, "report_format", 0)
resource_with_name_exists(name, caller) ==
    \E id \in DOMAIN report_formats :
        /\ report_formats[id].name = name
        /\ report_formats[id].owner = caller

\* "%u" of a number
RECURSIVE Decimal(_)
Decimal(n) ==
    LET digit == <<"0", "1", "2", "3", "4", "5", "6", "7", "8", "9">>
    IN  IF n < 10 THEN <<digit[n + 1]>>
        ELSE Decimal(n \div 10) \o <<digit[(n % 10) + 1]>>

\* The rows of a table without one row.
delete_row(table, id) == [i \in DOMAIN table \ {id} |-> table[i]]

(* ------------------------ create_report_format ------------------------ *)

\* A search that tries the number 2 only.
candidate_name_once(name, num, caller) ==
    IF ~resource_with_name_exists(name, caller) THEN name
    ELSE name \o <<" ", "2">>

\* The loop that finds a free name: name, then "name 2", "name 3", ...
RECURSIVE candidate_name(_, _, _)
candidate_name(name, num, caller) ==
    LET candidate == IF num = 1 THEN name
                     ELSE name \o <<" ">> \o Decimal(num)
    IN  IF ~resource_with_name_exists(candidate, caller) THEN candidate
        ELSE candidate_name(name, num + 1, caller)

\* Removal of an existing dir, mkdir and the two chmod calls.  A failed
\* chmod returns with the directory made.
create_prepare_dir(ds, dir, fault) ==
    IF g_file_test(ds, dir) /\ fault.point = "remove"
    THEN [ret |-> -1, dirs |-> ds]
    ELSE LET removed == IF g_file_test(ds, dir)
                        THEN gvm_file_remove_recurse(ds, dir) ELSE ds
             made == g_mkdir_with_parents(removed, dir)
         IN  IF fault.point = "mkdir" THEN [ret |-> -1, dirs |-> removed]
             ELSE IF fault.point = "chmod_owner_dir"
                  THEN [ret |-> -1, dirs |-> made]
             ELSE IF fault.point = "chmod_dir"
                  THEN [ret |-> -1, dirs |-> made]
             ELSE [ret |-> 0, dirs |-> made]

\* The loop that writes the files array into dir.
RECURSIVE create_write_files(_, _, _, _, _)
create_write_files(ds, dir, files, index, fault) ==
    IF index > Len(files) THEN [ret |-> 0, dirs |-> ds]
    ELSE LET file_name == files[index][1]
             contents == IF files[index][2] # ""
                         THEN g_base64_decode(files[index][2]) ELSE <<>>
             set == g_file_set_contents(ds, dir, file_name, contents)
         IN  IF file_name = ""
             THEN [ret |-> 2, dirs |-> gvm_file_remove_recurse(ds, dir)]
             ELSE IF fault = Fault("write", index)
                  THEN [ret |-> -1, dirs |-> gvm_file_remove_recurse(ds, dir)]
             ELSE IF fault = Fault("chmod_file", index)
                  THEN [ret |-> -1, dirs |-> gvm_file_remove_recurse(set, dir)]
             ELSE create_write_files(set, dir, files, index + 1, fault)

\* The loop that adds the params array to the new row: the result and the
\* parameter rows inserted so far.
RECURSIVE create_add_params(_, _, _, _)
create_add_params(params, params_options, index, stored) ==
    IF index > Len(params) THEN [ret |-> 0, params |-> stored]
    ELSE LET param == params[index]
             type == report_format_param_type_from_name(param.type)
             min == IF param.type_min # NULL THEN strtoll(param.type_min)
                    ELSE LLONG_MIN
             max == IF param.type_max # NULL THEN strtoll(param.type_max)
                    ELSE LLONG_MAX
             options == params_options[index]
             row == [name |-> param.name, type |-> type,
                     value |-> param.value, type_min |-> min,
                     type_max |-> max, fallback |-> param.fallback,
                     options |-> options]
             inserted == Append(stored, row)
             failed(ret) == [ret |-> ret, params |-> stored]
         IN  IF param.type = NullText THEN failed(7)
             ELSE IF type = "ERROR" THEN failed(9)
             ELSE IF param.type_min # NULL /\ min = LLONG_MIN THEN failed(6)
             ELSE IF param.type_max # NULL /\ max = LLONG_MAX THEN failed(6)
             ELSE IF param.fallback = NULL THEN failed(5)
             ELSE IF ParamsNamed(stored, param.name) # {} THEN failed(8)
             ELSE IF options = NULL THEN failed(-1)
             ELSE IF validate_param_value(inserted, options, param.name,
                                          param.value) # 0
                  THEN failed(3)
             ELSE IF validate_param_value(inserted, options, param.name,
                                          param.fallback) # 0
                  THEN failed(4)
             ELSE create_add_params(params, params_options, index + 1,
                                    inserted)

\* A test of the UUID that looks at report_formats only.
create_uuid_exists_live(uuid) ==
    \E id \in DOMAIN report_formats : report_formats[id].uuid = uuid

\* Whether a row with this UUID exists, live or as the original of a
\* trashed one.
create_uuid_exists(uuid) ==
    \/ \E id \in DOMAIN report_formats : report_formats[id].uuid = uuid
    \/ \E id \in DOMAIN report_formats_trash :
           report_formats_trash[id].original_uuid = uuid

\* The loop over the params in the signature block: 6 for a bound that
\* strtoll gives as an extreme, -1 for a param without options array, else
\* the pieces of the params for the text.
RECURSIVE create_format_params(_, _, _, _)
create_format_params(params, params_options, index, pieces) ==
    IF index > Len(params) THEN [ret |-> 0, pieces |-> pieces]
    ELSE IF /\ params[index].type_min # NULL
            /\ strtoll(params[index].type_min) = LLONG_MIN
         THEN [ret |-> 6, pieces |-> pieces]
    ELSE IF /\ params[index].type_max # NULL
            /\ strtoll(params[index].type_max) = LLONG_MAX
         THEN [ret |-> 6, pieces |-> pieces]
    ELSE IF params_options[index] = NULL THEN [ret |-> -1, pieces |-> pieces]
    ELSE create_format_params(
             params, params_options, index + 1,
             Append(pieces,
                    [name |-> params[index].name,
                     type |-> params[index].type,
                     min |-> IF params[index].type_min = NULL THEN <<>>
                             ELSE <<strtoll(params[index].type_min)>>,
                     max |-> IF params[index].type_max = NULL THEN <<>>
                             ELSE <<strtoll(params[index].type_max)>>,
                     fallback |-> params[index].fallback,
                     options |-> params_options[index]]))

\* The text that create_report_format has verified: the UUID that the
\* signature file has in its name, or else the UUID of the call, the
\* sorted files, and the params.
create_format(found, r, pieces) ==
    FormatText(IF found.uuid # NULL THEN found.uuid ELSE r.uuid,
               g_ptr_array_sort(r.files), pieces.pieces)

\* if (format_signature) signature = format_signature;
create_format_signature(found, r) ==
    IF found.signature # NoSignature THEN found.signature ELSE r.signature

\* The signature block of create_report_format once a signature is at
\* hand: the files array is sorted, the text is built, and the signature
\* of the feed, or else that of the caller, is verified.
create_verify(found, r, pieces) ==
    IF pieces.ret # 0
    THEN [ret |-> pieces.ret, trust |-> "TRUST_UNKNOWN", temp |-> {},
          files |-> r.files, signature |-> r.signature]
    ELSE [ret |-> verify_signature(create_format(found, r, pieces),
                                   create_format_signature(found, r),
                                   r.verifier).ret,
          temp |-> verify_signature(create_format(found, r, pieces),
                                    create_format_signature(found, r),
                                    r.verifier).temp,
          trust |-> verify_signature(create_format(found, r, pieces),
                                     create_format_signature(found, r),
                                     r.verifier).trust,
          files |-> g_ptr_array_sort(r.files),
          signature |-> create_format_signature(found, r)]

\* A signature block that trusts what it did not verify.
create_signature_trusting(r) ==
    [ret |-> 0, trust |-> "TRUST_YES", temp |-> {}, files |-> r.files,
     signature |-> r.signature]

\* The signature block of create_report_format: nothing is verified when
\* find_signature fails and the caller gave no signature.
create_signature(r) ==
    IF find_signature(dirs, r.uuid).ret # 0 /\ r.signature = NoSignature
    THEN [ret |-> 0, trust |-> "TRUST_UNKNOWN", temp |-> {},
          files |-> r.files, signature |-> r.signature]
    ELSE create_verify(find_signature(dirs, r.uuid), r,
                       create_format_params(r.array.params,
                                            r.array.params_options, 1, <<>>))

\* A create_report_format that makes no link.
create_signature_link_none(ds, uuid, new_uuid) == ds

\* The link that create_report_format makes for the new UUID of a format
\* whose UUID exists already: to the signature file of the feed for the
\* given UUID, or else to the file that the private link of that UUID
\* leads to, or else to the place where the feed would have the file.
create_signature_link(ds, uuid, new_uuid) ==
    LET old == IF g_file_test(ds, SignatureFile("nvt", uuid)) THEN uuid
               ELSE IF g_file_test(ds, SignatureFile("signatures", uuid))
               THEN (CHOOSE f \in ds[SignatureFile("signatures", uuid)] :
                         TRUE)[2]
               ELSE uuid
    IN  ds @@ (SignatureFile("signatures", new_uuid) :> {<<"link", old>>})

\* create_report_format from sql_begin_immediate on, with the files array,
\* the signature and the trust that the signature block left.
create_report_format_store(caller, r, checked) ==
    LET exists == create_uuid_exists(r.uuid)
        actual == IF exists THEN MintedUUID(seq_uuid + 1) ELSE r.uuid
        minted == IF exists THEN seq_uuid + 1 ELSE seq_uuid
        stored_name == candidate_name(r.name, 1, caller)
        dir == OwnerDir(caller, actual)
        linked == IF exists THEN create_signature_link(dirs, r.uuid, actual)
                  ELSE dirs
        prepared == create_prepare_dir(linked, dir, r.fault)
        written == IF prepared.ret # 0 THEN prepared
                   ELSE create_write_files(prepared.dirs, dir,
                                           checked.files, 1, r.fault)
        added == create_add_params(r.array.params, r.array.params_options,
                                   1, <<>>)
        report_format == seq_report_formats
        row == [uuid |-> actual, owner |-> caller, name |-> stored_name,
                flags |-> 0, modification_time |-> now,
                signature |-> checked.signature, trust |-> checked.trust,
                params |-> added.params]
        \* staged: the files that the directory held when the loop over
        \* the params began
        done(ret, new, staged) ==
            last' = [Last("create", 0, ret, new, 0, dir)
                        EXCEPT !.request = r, !.caller = caller,
                               !.staged = staged, !.temp = checked.temp]
    IN  IF ~r.may
        THEN \* sql_rollback before anything was done
             /\ last' = [Last("create", 0, 99, 0, 0, NoDir)
                            EXCEPT !.request = r, !.caller = caller,
                                   !.temp = checked.temp]
             /\ UNCHANGED <<tables, sequences, disk, history, clock>>
        ELSE IF written.ret # 0
        THEN \* a failed directory or file step: sql_rollback
             /\ done(written.ret, 0, {})
             /\ dirs' = written.dirs
             /\ seq_uuid' = minted
             /\ UNCHANGED <<tables, seq_report_formats,
                            seq_report_formats_trash, trash_root, history,
                            clock>>
        ELSE IF added.ret # 0
        THEN \* a refused parameter: the dir is removed, sql_rollback
             /\ done(added.ret, 0, written.dirs[dir])
             /\ dirs' = gvm_file_remove_recurse(written.dirs, dir)
             /\ seq_uuid' = minted
             /\ seq_report_formats' = seq_report_formats + 1
             /\ UNCHANGED <<tables, seq_report_formats_trash, trash_root,
                            history, clock>>
        ELSE \* sql_commit
             /\ done(0, report_format, written.dirs[dir])
             /\ report_formats' = report_formats @@ (report_format :> row)
             /\ dirs' = written.dirs
             /\ seq_uuid' = minted
             /\ seq_report_formats' = seq_report_formats + 1
             /\ UNCHANGED <<report_formats_trash, resources_predefined,
                            alert_method_data, alert_method_data_trash,
                            seq_report_formats_trash, trash_root, history,
                            clock>>

\* create_report_format: a signature block that fails ends the call
\* before the transaction is opened.
create_report_format(caller, r) ==
    IF create_signature(r).ret # 0
    THEN /\ last' = [Last("create", 0, create_signature(r).ret, 0, 0, NoDir)
                        EXCEPT !.request = r, !.caller = caller,
                               !.temp = create_signature(r).temp]
         /\ UNCHANGED <<tables, sequences, disk, history, clock>>
    ELSE create_report_format_store(caller, r, create_signature(r))

\* The sequences stay within the bounds.
Bounded ==
    /\ seq_report_formats' <= MaxId + 1
    /\ seq_report_formats_trash' <= MaxTrashId + 1
    /\ seq_uuid' <= MaxMint

Create(callers, requests) ==
    \E caller \in callers, r \in requests :
        /\ create_report_format(caller, r)
        /\ Bounded

(* ----------------------- move_report_format_dir ----------------------- *)

\* gvm_file_move of the entries named in moved from dir to new_dir: a file
\* of the same name in new_dir is replaced.
move_entries(ds, dir, new_dir, moved) ==
    [ds EXCEPT ![new_dir] = {f \in @ : f[1] \notin moved}
                            \cup {f \in ds[dir] : f[1] \in moved},
               ![dir] = {f \in @ : f[1] \notin moved}]

\* rename (dir, new_dir): new_dir may exist when it is an empty directory.
rename_possible(ds, new_dir) == ~g_file_test(ds, new_dir) \/ ds[new_dir] = {}

rename(ds, dir, new_dir) ==
    LET kept == [d \in DOMAIN ds \ {dir, new_dir} |-> ds[d]]
    IN  kept @@ (new_dir :> ds[dir])

EntryNames(ds, dir) == {f[1] : f \in ds[dir]}

\* move_report_format_dir: 0 success, -1 error, and the disk it leaves.
move_report_format_dir(ds, dir, new_dir, fault) ==
    IF ~g_file_test(ds, dir) THEN [ret |-> -1, dirs |-> ds]
    ELSE IF fault.point \notin {"rename", "exdev", "exdev_mkdir",
                                "exdev_open", "exdev_move"}
    THEN IF rename_possible(ds, new_dir)
         THEN [ret |-> 0, dirs |-> rename(ds, dir, new_dir)]
         ELSE \* ENOTEMPTY
              [ret |-> -1, dirs |-> ds]
    ELSE IF fault.point = "rename" THEN [ret |-> -1, dirs |-> ds]
    ELSE \* EXDEV: across devices, move by hand
         LET made == g_mkdir_with_parents(ds, new_dir)
             all == move_entries(made, dir, new_dir, EntryNames(ds, dir))
         IN  IF fault.point = "exdev_mkdir" THEN [ret |-> -1, dirs |-> ds]
             ELSE IF fault.point = "exdev_open"
                  THEN [ret |-> -1, dirs |-> made]
             ELSE IF /\ fault.point = "exdev_move"
                     /\ ~(EntryNames(ds, dir) \subseteq fault.moved)
                  THEN \* gvm_file_move fails at an entry that is left
                       [ret |-> -1,
                        dirs |-> move_entries(made, dir, new_dir,
                                              fault.moved
                                              \cap EntryNames(ds, dir))]
             ELSE [ret |-> 0, dirs |-> gvm_file_remove_recurse(all, dir)]

(* ------------------------ delete_report_format ------------------------ *)

\* Alert data names that report_format_in_use looks at.
InUseNames ==
    {"notice_attach_format", "notice_report_format", "scp_report_format",
     "send_report_format", "smb_report_format",
     "verinice_server_report_format"}

\* A check that finds no alert.
report_format_in_use_never(report_format) == FALSE

report_format_in_use(report_format) ==
    \E a \in alert_method_data :
        /\ a.data = report_formats[report_format].uuid
        /\ a.name \in InUseNames

trash_report_format_in_use(report_format) ==
    \E a \in alert_method_data_trash :
        /\ a.data = report_formats_trash[report_format].original_uuid
        /\ a.name \in InUseNames

\* The check of the ultimate delete for a trash alert.
in_use_by_trash_alert(report_format) ==
    \E a \in alert_method_data_trash :
        /\ a.data = report_formats[report_format].uuid
        /\ a.name \in {"notice_attach_format", "notice_report_format"}

\* delete_report_format_rows
delete_report_format_rows(report_format) ==
    delete_row(report_formats, report_format)

\* The INSERT ... SELECT of one parameter row and of its option rows into
\* the trash tables, for every parameter in id order.  Option rows are
\* taken to come out of the SELECT in id order.
delete_copy_params(params) ==
    [i \in 1..Len(params) |->
        [name |-> params[i].name, type |-> params[i].type,
         value |-> params[i].value, type_min |-> params[i].type_min,
         type_max |-> params[i].type_max, fallback |-> params[i].fallback,
         options |-> [j \in 1..Len(params[i].options) |->
                         params[i].options[j]]]]

\* The row that the soft delete inserts into report_formats_trash.
delete_trash_row(report_format, trash_uuid) ==
    LET row == report_formats[report_format]
    IN  [uuid |-> trash_uuid, original_uuid |-> row.uuid,
         owner |-> row.owner, name |-> row.name, flags |-> row.flags,
         modification_time |-> row.modification_time,
         signature |-> row.signature, trust |-> row.trust,
         params |-> delete_copy_params(row.params)]

delete_report_format(caller, report_format_id, ultimate, may, fault) ==
    LET report_format ==
            find_report_format_with_permission(report_format_id, caller)
        trash == find_trash(report_format_id, caller)
        done(ret, row, trash_row) ==
            last' = [Last("delete", ultimate, ret, row, trash_row, NoDir)
                        EXCEPT !.request.may = may]
        unchanged == UNCHANGED <<tables, sequences, disk, history, clock>>
    IN  IF ~may THEN done(99, 0, 0) /\ unchanged
        ELSE IF report_format = 0
        THEN \* look in the trashcan
             LET dir == report_format_trash_dir(trash)
                 \* links to the feed signatures: original_uuid || '.asc'
                 base == SignatureFile(
                             "signatures",
                             report_formats_trash[trash].original_uuid)
             IN  IF trash = 0 THEN done(2, 0, 0) /\ unchanged
                 ELSE IF ultimate = 0 THEN done(0, 0, trash) /\ unchanged
                 ELSE IF trash_report_format_in_use(trash)
                      THEN done(1, 0, trash) /\ unchanged
                 ELSE IF g_file_test(dirs, dir) /\ fault.point = "remove"
                      THEN done(-1, 0, trash) /\ unchanged
                 ELSE /\ done(0, 0, trash)
                      /\ report_formats_trash' =
                             delete_row(report_formats_trash, trash)
                      /\ dirs' = unlink(gvm_file_remove_recurse(dirs, dir),
                                        base)
                      /\ UNCHANGED <<report_formats, resources_predefined,
                                     alert_method_data,
                                     alert_method_data_trash, sequences,
                                     trash_root, history, clock>>
        ELSE IF report_format_predefined(report_format)
        THEN done(3, report_format, 0) /\ unchanged
        ELSE LET dir == OwnerDir(report_formats[report_format].owner,
                                 report_format_id)
                 trash_report_format == seq_report_formats_trash
                 new_dir == report_format_trash_dir(trash_report_format)
                 moved == move_report_format_dir(dirs, dir, new_dir, fault)
             IN  IF ultimate # 0
                 THEN IF \/ in_use_by_trash_alert(report_format)
                         \/ report_format_in_use(report_format)
                      THEN done(1, report_format, 0) /\ unchanged
                      ELSE IF g_file_test(dirs, dir)
                              /\ fault.point = "remove"
                      THEN done(-1, report_format, 0) /\ unchanged
                      ELSE /\ done(0, report_format, 0)
                           /\ dirs' = gvm_file_remove_recurse(dirs, dir)
                           /\ report_formats' =
                                  delete_report_format_rows(report_format)
                           /\ UNCHANGED <<report_formats_trash,
                                          resources_predefined,
                                          alert_method_data,
                                          alert_method_data_trash,
                                          sequences, trash_root, history, clock>>
                 ELSE IF report_format_in_use(report_format)
                      THEN done(1, report_format, 0) /\ unchanged
                 ELSE IF fault.point = "mkdir_trash"
                      THEN done(-1, report_format, 0) /\ unchanged
                 ELSE IF moved.ret # 0
                      THEN \* sql_rollback after the rows were moved
                           /\ done(-1, report_format, 0)
                           /\ dirs' = moved.dirs
                           /\ trash_root' = TRUE
                           /\ seq_report_formats_trash' =
                                  seq_report_formats_trash + 1
                           /\ seq_uuid' = seq_uuid + 1
                           /\ UNCHANGED <<tables, seq_report_formats,
                                          history, clock>>
                 ELSE IF fault.point = "crash"
                      THEN \* the process ends before sql_commit: the
                           \* database drops the transaction
                           /\ done(-1, report_format, 0)
                           /\ dirs' = moved.dirs
                           /\ trash_root' = TRUE
                           /\ seq_report_formats_trash' =
                                  seq_report_formats_trash + 1
                           /\ seq_uuid' = seq_uuid + 1
                           /\ crashed' = [op |-> "delete",
                                          files |-> dirs[dir],
                                          at |-> {dir, new_dir},
                                          checked |-> FALSE]
                           /\ UNCHANGED <<tables, seq_report_formats,
                                          deleted, applying, clock>>
                 ELSE /\ done(0, report_format, trash_report_format)
                      /\ report_formats_trash' =
                             report_formats_trash
                             @@ (trash_report_format :>
                                   delete_trash_row(report_format,
                                                    MintedUUID(seq_uuid
                                                               + 1)))
                      /\ report_formats' =
                             delete_report_format_rows(report_format)
                      /\ dirs' = moved.dirs
                      /\ trash_root' = TRUE
                      /\ seq_report_formats_trash' =
                             seq_report_formats_trash + 1
                      /\ seq_uuid' = seq_uuid + 1
                      /\ deleted' =
                             deleted
                             @@ (trash_report_format :>
                                   [name |-> report_formats[report_format]
                                                 .name,
                                    params |-> report_formats[report_format]
                                                   .params,
                                    files |-> dirs[dir]])
                      /\ UNCHANGED <<resources_predefined,
                                     alert_method_data,
                                     alert_method_data_trash,
                                     seq_report_formats, crashed,
                                     applying, clock>>

\* UUIDs a caller may name: those of the rows and one of no row.
KnownUUIDs ==
    {report_formats[id].uuid : id \in DOMAIN report_formats}
    \cup {report_formats_trash[id].uuid : id \in DOMAIN report_formats_trash}
    \cup {<<"U", 0>>}

\* Calls of delete_report_format: ultimate, whether the caller may
\* delete_report_format, and the filesystem call that fails.
DeleteRequest(ultimate, may, fault) ==
    [ultimate |-> ultimate, may |-> may, fault |-> fault]

Delete(callers, requests) ==
    \E caller \in callers, report_format_id \in KnownUUIDs, r \in requests :
        /\ delete_report_format(caller, report_format_id, r.ultimate, r.may,
                                r.fault)
        /\ Bounded

(* ----------------------- restore_report_format ------------------------ *)

\* count of report_formats rows owned by the caller with the name of the
\* trash row
restore_name_exists(resource, caller) ==
    \E id \in DOMAIN report_formats :
        /\ report_formats[id].name = report_formats_trash[resource].name
        /\ report_formats[id].owner = caller

\* A restore that never sees the original UUID in report_formats.
restore_uuid_exists_never(resource) == FALSE

\* count of report_formats rows with the original UUID of the trash row
restore_uuid_exists(resource) ==
    \E id \in DOMAIN report_formats :
        report_formats[id].uuid
        = report_formats_trash[resource].original_uuid

\* A restore that forgets the option rows.
restore_copy_params_without_options(params) ==
    [i \in 1..Len(params) |-> [params[i] EXCEPT !.options = <<>>]]

\* The INSERT ... SELECT of one parameter row and of its option rows back
\* into the main tables, for every trash parameter in id order.
restore_copy_params(params) ==
    [i \in 1..Len(params) |->
        [name |-> params[i].name, type |-> params[i].type,
         value |-> params[i].value, type_min |-> params[i].type_min,
         type_max |-> params[i].type_max, fallback |-> params[i].fallback,
         options |-> [j \in 1..Len(params[i].options) |->
                         params[i].options[j]]]]

\* A row that keeps the UUID it had in the trashcan.
restore_row_trash_uuid(resource) ==
    LET row == report_formats_trash[resource]
    IN  [uuid |-> row.uuid, owner |-> row.owner,
         name |-> row.name, flags |-> row.flags,
         modification_time |-> row.modification_time,
         signature |-> row.signature, trust |-> row.trust,
         params |-> row.params]

\* The row that restore inserts into report_formats.
restore_row(resource) ==
    LET row == report_formats_trash[resource]
    IN  [uuid |-> row.original_uuid, owner |-> row.owner,
         name |-> row.name, flags |-> row.flags,
         modification_time |-> row.modification_time,
         signature |-> row.signature, trust |-> row.trust,
         params |-> restore_copy_params(row.params)]

restore_report_format(caller, report_format_id, fault) ==
    LET resource == find_trash(report_format_id, caller)
        report_format == seq_report_formats
        row == restore_row(resource)
        dir == OwnerDir(row.owner, row.uuid)
        trash_dir == report_format_trash_dir(resource)
        moved == move_report_format_dir(dirs, trash_dir, dir, fault)
        \* transaction: what the call did with the transaction that its
        \* caller began
        done(ret, new, transaction) ==
            last' = [Last("restore", 0, ret, new, resource, NoDir)
                        EXCEPT !.request.fault = fault,
                               !.transaction = transaction]
        unchanged == UNCHANGED <<tables, sequences, disk, history, clock>>
    IN  IF resource = 0 THEN done(2, 0, "open") /\ unchanged
        ELSE IF restore_name_exists(resource, caller)
        THEN done(3, 0, "sql_rollback") /\ unchanged
        ELSE IF restore_uuid_exists(resource)
        THEN done(4, 0, "sql_rollback") /\ unchanged
        ELSE IF moved.ret # 0
        THEN \* sql_rollback after the rows were moved
             /\ done(-1, 0, "sql_rollback")
             /\ dirs' = moved.dirs
             /\ seq_report_formats' = seq_report_formats + 1
             /\ UNCHANGED <<tables, seq_report_formats_trash, seq_uuid,
                            trash_root, history, clock>>
        ELSE IF fault.point = "crash"
        THEN \* the process ends before sql_commit: the database drops the
             \* transaction
             /\ done(-1, 0, "dropped")
             /\ dirs' = moved.dirs
             /\ seq_report_formats' = seq_report_formats + 1
             /\ crashed' = [op |-> "restore", files |-> dirs[trash_dir],
                            at |-> {dir, trash_dir}, checked |-> FALSE]
             /\ UNCHANGED <<tables, seq_report_formats_trash, seq_uuid,
                            trash_root, deleted, applying, clock>>
        ELSE /\ done(0, report_format, "sql_commit")
             /\ report_formats' = report_formats @@ (report_format :> row)
             /\ report_formats_trash' =
                    delete_row(report_formats_trash, resource)
             /\ dirs' = moved.dirs
             /\ seq_report_formats' = seq_report_formats + 1
             /\ UNCHANGED <<resources_predefined, alert_method_data,
                            alert_method_data_trash,
                            seq_report_formats_trash, seq_uuid, trash_root,
                            history, clock>>

Restore(callers, faults) ==
    \E caller \in callers, report_format_id \in KnownUUIDs,
       fault \in faults :
        /\ restore_report_format(caller, report_format_id, fault)
        /\ Bounded

(* -------------------- empty_trashcan_report_formats ------------------ *)

\* The ids of the report_formats_trash rows of the user, in the order of
\* the array.
RECURSIVE trash_ids_of(_, _)
trash_ids_of(trash, caller) ==
    LET ids == {id \in DOMAIN trash : trash[id].owner = caller}
        first == CHOOSE id \in ids : \A other \in ids : id <= other
    IN  IF ids = {} THEN <<>>
        ELSE <<first>> \o trash_ids_of(delete_row(trash, first), caller)

\* A loop that leaves every trash directory where it is.
empty_remove_dirs_none(ds, ids, index, fault) == [ret |-> 0, dirs |-> ds]

\* The loop that removes the trash directories: -1 at the directory whose
\* removal fails, with the directories before it gone.
RECURSIVE empty_remove_dirs(_, _, _, _)
empty_remove_dirs(ds, ids, index, fault) ==
    IF index > Len(ids) THEN [ret |-> 0, dirs |-> ds]
    ELSE LET dir == report_format_trash_dir(ids[index])
         IN  IF g_file_test(ds, dir) /\ fault = Fault("remove", index)
             THEN [ret |-> -1, dirs |-> ds]
             ELSE empty_remove_dirs(
                      IF g_file_test(ds, dir)
                      THEN gvm_file_remove_recurse(ds, dir) ELSE ds,
                      ids, index + 1, fault)

\* empty_trashcan_report_formats: the params, options and rows of the user
\* leave the trash tables, then their directories are removed; a failed
\* removal rolls the tables back.
empty_trashcan_report_formats(caller, fault) ==
    LET ids == trash_ids_of(report_formats_trash, caller)
        removed == empty_remove_dirs(dirs, ids, 1, fault)
    IN  /\ last' = LastBy(caller, "empty", removed.ret)
        /\ dirs' = removed.dirs
        /\ report_formats_trash' =
               IF removed.ret = 0
               THEN [id \in {r \in DOMAIN report_formats_trash :
                                report_formats_trash[r].owner # caller}
                     |-> report_formats_trash[id]]
               ELSE report_formats_trash
        /\ UNCHANGED <<report_formats, resources_predefined,
                       alert_method_data, alert_method_data_trash,
                       sequences, trash_root, history, clock>>

EmptyTrash(callers, faults) ==
    \E caller \in callers, fault \in faults :
        empty_trashcan_report_formats(caller, fault)

(* ------------------------ modify_report_format ------------------------ *)

\* set_report_format_name
set_report_format_name(rows, report_format, name) ==
    [rows EXCEPT ![report_format].name = name,
                 ![report_format].modification_time = now]

\* set_report_format_summary: the summary column is not part of the rows;
\* the statement also sets modification_time.
set_report_format_summary(rows, report_format, summary) ==
    [rows EXCEPT ![report_format].modification_time = now]

\* set_report_format_active
set_report_format_active(rows, report_format, active) ==
    [rows EXCEPT ![report_format].flags = IF active THEN 1 ELSE 0,
                 ![report_format].modification_time = now]

\* resource_set_predefined ("report_format", resource, enable)
resource_set_predefined(predefined, resource, enable) ==
    IF enable THEN (predefined \ {resource}) \cup {resource}
    ELSE predefined \ {resource}

\* The parameter rows named name of all report formats, as <<report format,
\* position>>: what SELECT id FROM report_format_params WHERE name = '%s'
\* can give.
params_with_name(rows, name) ==
    UNION {{<<id, i>> : i \in {j \in DOMAIN rows[id].params :
                                   rows[id].params[j].name = name}} :
           id \in DOMAIN rows}

\* UPDATE report_format_params SET value WHERE report_format AND name
update_param_value(rows, report_format, name, value) ==
    [rows EXCEPT ![report_format].params =
        [i \in DOMAIN @ |-> IF @[i].name = name
                            THEN [@[i] EXCEPT !.value = value]
                            ELSE @[i]]]

\* set_report_format_param with param the row that the SELECT gave:
\* 0 success, 2 validation of value failed, and the rows afterwards.
set_report_format_param(rows, report_format, name, value_64, param) ==
    LET value == IF value_64 # NullText /\ value_64 # ""
                 THEN g_base64_decode(value_64) ELSE <<>>
        options == rows[param[1]].params[param[2]].options
    IN  IF validate_param_value(rows[report_format].params, options, name,
                                value) # 0
        THEN [ret |-> 2, rows |-> rows]
        ELSE [ret |-> 0,
              rows |-> update_param_value(rows, report_format, name, value)]

\* modify_report_format by the user caller: current_credentials.uuid is
\* set.  credentials_null is current_credentials.uuid == NULL.
modify_report_format(caller, credentials_null, report_format_id, name, summary, active, param_name, param_value, predefined, may) ==
    LET report_format ==
            find_report_format_with_permission(report_format_id, caller)
        named == IF name # NULL
                 THEN set_report_format_name(report_formats, report_format,
                                             name)
                 ELSE report_formats
        summarised == IF summary # NULL
                      THEN set_report_format_summary(named, report_format,
                                                     summary)
                      ELSE named
        activated == IF active # NULL
                     THEN set_report_format_active(summarised,
                                                   report_format,
                                                   active # <<"0">>)
                     ELSE summarised
        marked == IF predefined # NULL
                  THEN resource_set_predefined(resources_predefined,
                                               report_format,
                                               predefined # <<"0">>)
                  ELSE resources_predefined
        found == params_with_name(activated, param_name)
        done(ret, row) ==
            last' = [Last("modify", 0, ret, row, 0, NoDir)
                        EXCEPT !.request.may = may,
                               !.summary = summary,
                               !.param_name = param_name,
                               !.param_value = param_value]
        unchanged == UNCHANGED <<tables, sequences, disk, history, clock>>
        others == UNCHANGED <<report_formats_trash, alert_method_data,
                              alert_method_data_trash, sequences, disk,
                              history, clock>>
    IN  IF predefined # NULL /\ predefined # <<"0">>
           /\ predefined # <<"1">>
        THEN done(5, 0) /\ unchanged
        ELSE IF ~may THEN done(99, 0) /\ unchanged
        ELSE IF report_format = 0 THEN done(1, 0) /\ unchanged
        ELSE IF credentials_null /\ report_format_predefined(report_format)
        THEN done(99, report_format) /\ unchanged
        ELSE \* sql_commit, then the parameter in a transaction of its own
             /\ resources_predefined' = marked
             /\ others
             /\ IF param_name = NULL
                THEN done(0, report_format) /\ report_formats' = activated
                ELSE IF found = {}
                THEN done(3, report_format) /\ report_formats' = activated
                ELSE \E param \in found :
                       LET set == set_report_format_param(
                                      activated, report_format, param_name,
                                      param_value, param)
                       IN  /\ done(IF set.ret = 2 THEN 4 ELSE set.ret,
                                   report_format)
                           /\ report_formats' = set.rows

\* Calls of modify_report_format without a summary: name, active,
\* param_name, param_value, predefined, and whether the caller may
\* modify_report_format.
ModifyRequest(name, active, param_name, param_value, predefined, may) ==
    [name |-> name, summary |-> NULL, active |-> active,
     param_name |-> param_name, param_value |-> param_value,
     predefined |-> predefined, may |-> may]

Modify(callers, requests) ==
    \E caller \in callers, report_format_id \in KnownUUIDs, r \in requests :
        \* assert (current_credentials.uuid)
        modify_report_format(caller, FALSE, report_format_id, r.name,
                             r.summary, r.active, r.param_name,
                             r.param_value, r.predefined, r.may)

(* ------------------------- copy_report_format ------------------------- *)

\* uniquify: the first of "name Clone 1", "name Clone 2", ... that no
\* report format of the caller has.
RECURSIVE uniquify(_, _, _)
uniquify(name, num, caller) ==
    LET candidate == name \o <<" ", "C", "l", "o", "n", "e", " ">>
                     \o Decimal(num)
    IN  IF ~resource_with_name_exists(candidate, caller) THEN candidate
        ELSE uniquify(name, num + 1, caller)

\* copy_resource_lock: 0 with the rows new and old, 1 the name exists,
\* 2 the source was not found, 99 permission denied.
copy_resource_lock(caller, name, source_uuid, may) ==
    LET old == find_report_format_with_permission(source_uuid, caller)
        given == name # NULL /\ name # <<>>
    IN  IF ~may THEN [ret |-> 99, old |-> 0, new |-> 0]
        ELSE IF old = 0 THEN [ret |-> 2, old |-> 0, new |-> 0]
        ELSE IF given /\ resource_with_name_exists(name, caller)
        THEN [ret |-> 1, old |-> old, new |-> 0]
        ELSE [ret |-> 0, old |-> old, new |-> seq_report_formats]

\* INSERT INTO report_format_params ... SELECT: the parameter rows of the
\* source, without any row of report_format_param_options.
copy_params(params) ==
    [i \in 1..Len(params) |->
        [name |-> params[i].name, type |-> params[i].type,
         value |-> params[i].value, type_min |-> params[i].type_min,
         type_max |-> params[i].type_max, fallback |-> params[i].fallback,
         options |-> <<>>]]

\* The directory steps of the copy: removal of an existing copy_dir, mkdir,
\* the two chmod calls, g_dir_open and the copy of every entry.  No failure
\* removes what was made.
copy_files(ds, source_dir, copy_dir, fault) ==
    IF g_file_test(ds, copy_dir) /\ fault.point = "remove"
    THEN [ret |-> -1, dirs |-> ds]
    ELSE LET removed == IF g_file_test(ds, copy_dir)
                        THEN gvm_file_remove_recurse(ds, copy_dir) ELSE ds
             made == g_mkdir_with_parents(removed, copy_dir)
             some == [made EXCEPT ![copy_dir] =
                         {f \in ds[source_dir] : f[1] \in fault.moved}]
             all == [made EXCEPT ![copy_dir] = ds[source_dir]]
         IN  IF fault.point = "mkdir" THEN [ret |-> -1, dirs |-> removed]
             ELSE IF fault.point \in {"chmod_owner_dir", "chmod_dir",
                                      "dir_open"}
                  THEN [ret |-> -1, dirs |-> made]
             ELSE IF /\ fault.point = "copy"
                     /\ ~(EntryNames(ds, source_dir) \subseteq fault.moved)
                  THEN \* gvm_file_copy fails at an entry that is left
                       [ret |-> -1, dirs |-> some]
             ELSE [ret |-> 0, dirs |-> all]

copy_report_format(caller, name, source_uuid, may, fault) ==
    LET locked == copy_resource_lock(caller, name, source_uuid, may)
        old == locked.old
        new == locked.new
        copy_uuid == MintedUUID(seq_uuid + 1)
        copy_name == IF name # NULL /\ name # <<>> THEN name
                     ELSE uniquify(report_formats[old].name, 1, caller)
        row == [uuid |-> copy_uuid, owner |-> caller, name |-> copy_name,
                flags |-> report_formats[old].flags,
                modification_time |-> now,
                signature |-> report_formats[old].signature,
                trust |-> IF report_format_predefined(old) THEN "TRUST_YES"
                          ELSE report_formats[old].trust,
                params |-> copy_params(report_formats[old].params)]
        source_dir == IF report_format_predefined(old)
                      THEN predefined_report_format_dir(source_uuid)
                      ELSE OwnerDir(report_formats[old].owner, source_uuid)
        copy_dir == OwnerDir(caller, copy_uuid)
        copied == copy_files(dirs, source_dir, copy_dir, fault)
        done(ret, row_id) ==
            last' = [Last("copy", 0, ret, row_id, 0,
                          IF locked.ret = 0 THEN copy_dir ELSE NoDir)
                        EXCEPT !.request.uuid = source_uuid,
                               !.request.may = may]
        rolled_back == UNCHANGED <<tables, seq_report_formats_trash,
                                   trash_root, history, clock>>
    IN  IF locked.ret # 0
        THEN /\ done(locked.ret, 0)
             /\ UNCHANGED <<tables, sequences, disk, history, clock>>
        ELSE /\ seq_report_formats' = seq_report_formats + 1
             /\ seq_uuid' = seq_uuid + 1
             /\ IF ~g_file_test(dirs, source_dir)
                THEN done(-1, 0) /\ rolled_back /\ UNCHANGED dirs
                ELSE IF copied.ret # 0
                THEN done(-1, 0) /\ rolled_back /\ dirs' = copied.dirs
                ELSE /\ done(0, new)
                     /\ report_formats' = report_formats @@ (new :> row)
                     /\ dirs' = copied.dirs
                     /\ UNCHANGED <<report_formats_trash,
                                    resources_predefined, alert_method_data,
                                    alert_method_data_trash,
                                    seq_report_formats_trash, trash_root,
                                    history, clock>>

Copy(callers, names, permitted, faults) ==
    \E caller \in callers, name \in names, source_uuid \in KnownUUIDs,
       may \in permitted, fault \in faults :
        \* assert (owner_uuid)
        /\ LET old == find_report_format_with_permission(source_uuid,
                                                        caller)
           IN  old # 0 /\ ~report_format_predefined(old)
               => report_formats[old].owner # NoOwner
        /\ copy_report_format(caller, name, source_uuid, may, fault)
        /\ Bounded

(* ------------------------------- alerts ------------------------------- *)

\* Alerts are made, trashed and deleted by the alert manager: rows of
\* alert_method_data that name a report format.
AlertNames == {"notice_report_format", "scp_report_format"}

AlertLast == Last("alert", 0, 0, 0, 0, NoDir)

AlertCreate ==
    /\ Cardinality(alert_method_data) + Cardinality(alert_method_data_trash)
       < MaxAlerts
    /\ \E name \in AlertNames, id \in DOMAIN report_formats :
           alert_method_data' =
               alert_method_data
               \cup {[name |-> name, data |-> report_formats[id].uuid]}
    /\ last' = AlertLast
    /\ UNCHANGED <<report_formats, report_formats_trash,
                   resources_predefined, alert_method_data_trash, sequences,
                   disk, history, clock>>

AlertTrash ==
    /\ \E a \in alert_method_data :
           /\ alert_method_data' = alert_method_data \ {a}
           /\ alert_method_data_trash' = alert_method_data_trash \cup {a}
    /\ last' = AlertLast
    /\ UNCHANGED <<report_formats, report_formats_trash,
                   resources_predefined, sequences, disk, history, clock>>

AlertDelete ==
    /\ \E a \in alert_method_data_trash :
           alert_method_data_trash' = alert_method_data_trash \ {a}
    /\ last' = AlertLast
    /\ UNCHANGED <<report_formats, report_formats_trash,
                   resources_predefined, alert_method_data, sequences, disk,
                   history, clock>>

(* --------------------------- startup checks -------------------------- *)

\* g_strchug, g_strchomp and g_strstrip of glib.
RECURSIVE g_strchug(_)
g_strchug(s) ==
    IF s # <<>> /\ isspace(Head(s)) THEN g_strchug(Tail(s)) ELSE s

RECURSIVE g_strchomp(_)
g_strchomp(s) ==
    IF s # <<>> /\ isspace(s[Len(s)])
    THEN g_strchomp(SubSeq(s, 1, Len(s) - 1))
    ELSE s

g_strstrip(s) == g_strchomp(g_strchug(s))

\* check_db_trash_report_formats: when the trash directory is missing,
\* every trash row goes, with the trash alert data that names it.
check_db_trash_report_formats(trash, alerts_trash, root) ==
    IF root THEN [trash |-> trash, alerts_trash |-> alerts_trash]
    ELSE [trash |-> <<>>,
          alerts_trash |->
              {a \in alerts_trash :
                  ~(/\ \E id \in DOMAIN trash :
                           a.data = trash[id].original_uuid
                    /\ a.name \in {"notice_attach_format",
                                    "notice_report_format"})}]

\* update_report_format_uuids renames ten fixed UUIDs of old releases.  No
\* UUID of the universe is one of them, so it changes no row and no
\* directory.
update_report_format_uuids(rows) == rows

\* The rows of the temporary table duplicates: every row whose UUID a row
\* of lower id has too.
duplicates(rows) ==
    {id \in DOMAIN rows :
        \E other \in DOMAIN rows :
            other < id /\ rows[other].uuid = rows[id].uuid}

\* The owner of the row of lowest id with the UUID of a row.
original_owner(rows, id) ==
    LET same == {other \in DOMAIN rows : rows[other].uuid = rows[id].uuid}
    IN  rows[CHOOSE o \in same : \A p \in same : o <= p].owner

\* new_uuid of a row of duplicates: one make_uuid () per row.
duplicate_new_uuid(rows, minted, id) ==
    MintedUUID(minted + Cardinality({d \in duplicates(rows) : d <= id}))

\* The loop of make_report_format_uuids_unique over duplicates, in id
\* order: a global row is skipped, the directory of a row whose original
\* is global or of another user is renamed, the one of a row whose
\* original is of the same user is copied; a missing directory only logs.
RECURSIVE duplicates_move(_, _, _, _)
duplicates_move(ds, rows, minted, todo) ==
    IF todo = {} THEN ds
    ELSE LET id == CHOOSE d \in todo : \A e \in todo : d <= e
             row == rows[id]
             dir == OwnerDir(row.owner, row.uuid)
             new_dir == OwnerDir(row.owner,
                                 duplicate_new_uuid(rows, minted, id))
             copy == /\ original_owner(rows, id) # NoOwner
                     /\ row.owner = original_owner(rows, id)
             next == IF row.owner = NoOwner \/ dir \notin DOMAIN ds THEN ds
                     ELSE IF copy THEN ds @@ (new_dir :> ds[dir])
                     ELSE [d \in (DOMAIN ds \ {dir}) \cup {new_dir} |->
                              IF d = new_dir THEN ds[dir] ELSE ds[d]]
         IN  duplicates_move(next, rows, minted, todo \ {id})

\* make_report_format_uuids_unique.  (Its UPDATE of alert_method_data
\* selects by the alert's id, which the rows of the model do not carry.)
make_report_format_uuids_unique(rows, ds, minted) ==
    [rows |-> [id \in DOMAIN rows |->
                  IF id \in duplicates(rows)
                  THEN [rows[id] EXCEPT
                           !.uuid = duplicate_new_uuid(rows, minted, id)]
                  ELSE rows[id]],
     dirs |-> duplicates_move(ds, rows, minted, duplicates(rows)),
     minted |-> minted + Cardinality(duplicates(rows))]

\* g_strsplit (string, delimiter, -1): the tokens between the delimiters;
\* no token for the empty string.
RECURSIVE split_tokens(_, _, _)
split_tokens(s, delimiter, token) ==
    IF s = <<>> THEN <<token>>
    ELSE IF Head(s) = delimiter
         THEN <<token>> \o split_tokens(Tail(s), delimiter, <<>>)
         ELSE split_tokens(Tail(s), delimiter, Append(token, Head(s)))

g_strsplit(string, delimiter) ==
    IF string = <<>> THEN <<>> ELSE split_tokens(string, delimiter, <<>>)

\* The file report_format.xml of a directory of the feed.  The model
\* writes the document as the text of its name element followed, for each
\* param element, by "|", the text of its value element, "|" and the text
\* of its default element; the params are of type string and are named
\* "p" and "q" in the order of the document.
ConfigName == "report_format.xml"

ConfigParamNames == << <<"p">>, <<"q">> >>

FeedFiles(xml) == {<<"generate", <<"A">> >>, <<ConfigName, xml>>}

\* parse_entity and check_report_format_parse: the name and the param
\* elements of the document.
check_report_format_parse(xml) ==
    LET tokens == split_tokens(xml, "|", <<>>)
        count == IF (Len(tokens) - 1) \div 2 < Len(ConfigParamNames)
                 THEN (Len(tokens) - 1) \div 2 ELSE Len(ConfigParamNames)
    IN  [name |-> tokens[1],
         params |-> [k \in 1..count |->
                        [name |-> ConfigParamNames[k], type |-> "string",
                         value |-> tokens[2 * k],
                         fallback |-> tokens[2 * k + 1]]]]

\* Operator != of SQL, which is not true when a side is NULL.
sql_differs(a, b) == a # NULL /\ b # NULL /\ a # b

\* check_report_format_create: the row with the UUID becomes a global row
\* with the name of the document, and gets a new modification time when
\* it then differs from its row in report_formats_check; or a new global
\* row is inserted.  The row is marked predefined.
check_report_format_create(st, uuid, name) ==
    LET exists == \E id \in DOMAIN st.rows : st.rows[id].uuid = uuid
        updated(id) == [st.rows[id] EXCEPT !.owner = NoOwner,
                                           !.name = g_strstrip(name),
                                           !.signature = NoSignature,
                                           !.trust = "TRUST_YES",
                                           !.flags = 1]
        differs(id) ==
            /\ id \in DOMAIN st.check
            /\ \/ sql_differs(updated(id).name, st.check[id].name)
               \/ updated(id).trust # st.check[id].trust
               \/ updated(id).flags # st.check[id].flags
        rows == IF exists
                THEN [id \in DOMAIN st.rows |->
                         IF st.rows[id].uuid # uuid THEN st.rows[id]
                         ELSE IF differs(id)
                              THEN [updated(id) EXCEPT
                                       !.modification_time = now]
                              ELSE updated(id)]
                ELSE st.rows @@
                     (st.seq :> [uuid |-> uuid, owner |-> NoOwner,
                                 name |-> g_strstrip(name), flags |-> 1,
                                 modification_time |-> now,
                                 signature |-> NoSignature,
                                 trust |-> "TRUST_YES", params |-> <<>>])
        found == {id \in DOMAIN rows : rows[id].uuid = uuid}
        report_format == CHOOSE id \in found : \A o \in found : id <= o
    IN  [st EXCEPT !.rows = rows,
                   !.seq = IF exists THEN st.seq ELSE st.seq + 1,
                   !.predefined =
                       resource_set_predefined(st.predefined, report_format,
                                               TRUE)]

\* The id of the row with the UUID: SELECT id FROM report_formats WHERE
\* uuid = '%s'.
check_report_format_id(rows, uuid) ==
    CHOOSE id \in DOMAIN rows : rows[id].uuid = uuid

\* The params left by DELETE ... WHERE name is one of the names.
RECURSIVE params_without(_, _)
params_without(params, names) ==
    IF params = <<>> THEN <<>>
    ELSE IF Head(params).name \in names
         THEN params_without(Tail(params), names)
         ELSE <<Head(params)>> \o params_without(Tail(params), names)

\* An EXISTS query that finds nothing.
check_param_changed_never(st, name) == FALSE

\* The EXISTS query of check_report_format_add_params: a param of this name
\* of some report format differs from the param of this name that
\* report_format_params_check holds for the same report format.
check_param_changed(st, name) ==
    \E id \in DOMAIN st.rows \cap DOMAIN st.params_check :
        \E i \in DOMAIN st.rows[id].params,
           j \in DOMAIN st.params_check[id] :
            LET live == st.rows[id].params[i]
                old == st.params_check[id][j]
            IN  /\ live.name = name
                /\ old.name = name
                /\ \/ live.type # old.type
                   \/ sql_differs(live.value, old.value)
                   \/ sql_differs(live.type_min, old.type_min)
                   \/ sql_differs(live.type_max, old.type_max)
                   \/ sql_differs(live.fallback, old.fallback)

\* The row of report_format_params that a param of the document gives.
check_param_row(param) ==
    [name |-> g_strstrip(param.name),
     type |-> report_format_param_type_from_name(param.type),
     value |-> g_strstrip(param.value), type_min |-> NULL,
     type_max |-> NULL, fallback |-> g_strstrip(param.fallback),
     options |-> <<>>]

\* The UPDATE of the params of this name of the report format, or the
\* INSERT when it has none.
check_param_write(st, id, row) ==
    [st EXCEPT
        !.rows[id].params =
            IF ParamsNamed(@, row.name) # {}
            THEN [i \in DOMAIN @ |-> IF @[i].name = row.name THEN row
                                     ELSE @[i]]
            ELSE Append(@, row)]

\* update_mod_time after the statement, and "Keep this param": the param
\* leaves report_format_params_check.
check_param_keep(st, written, id, row) ==
    [written EXCEPT
        !.update_mod_time =
            \/ st.update_mod_time
            \/ ParamsNamed(st.rows[id].params, row.name) = {}
            \/ check_param_changed(written, row.name),
        !.params_check =
            [c \in DOMAIN @ |-> IF c = id
                                THEN params_without(@[c], {row.name})
                                ELSE @[c]]]

\* check_report_format_add_params: every param of the document updates the
\* param of its name or is inserted, and leaves report_format_params_check;
\* update_mod_time is set by an insert and by a positive EXISTS query.
RECURSIVE check_report_format_add_params(_, _, _, _)
check_report_format_add_params(st, uuid, params, index) ==
    IF index > Len(params) THEN st
    ELSE check_report_format_add_params(
             check_param_keep(
                 st,
                 check_param_write(st, check_report_format_id(st.rows, uuid),
                                   check_param_row(params[index])),
                 check_report_format_id(st.rows, uuid),
                 check_param_row(params[index])),
             uuid, params, index + 1)

\* The end of check_report_format: the params that
\* report_format_params_check still holds for the report format are
\* deleted, the modification time is set when update_mod_time is, and the
\* row leaves report_formats_check.
check_report_format_keep(added, uuid) ==
    LET id == check_report_format_id(added.rows, uuid)
        stale == IF id \in DOMAIN added.params_check
                 THEN {added.params_check[id][j].name :
                          j \in DOMAIN added.params_check[id]}
                 ELSE {}
    IN  [added EXCEPT
            !.rows[id] =
                [@ EXCEPT !.params = params_without(@, stale),
                          !.modification_time =
                              IF added.update_mod_time \/ stale # {}
                              THEN now ELSE @],
            !.check = [c \in {r \in DOMAIN added.check :
                                 added.check[r].uuid # uuid}
                       |-> added.check[c]]]

\* check_report_format of one entry of the feed's directory: a missing or
\* empty report_format.xml ends it with -1 before any statement; else the
\* row is made or updated, its params are made or updated, and the rest
\* is as above.
check_report_format(st, ds, uuid) ==
    LET dir == predefined_report_format_dir(uuid)
        config == {f \in ds[dir] : f[1] = ConfigName}
        xml == (CHOOSE f \in config : TRUE)[2]
        entity == check_report_format_parse(xml)
    IN  IF config = {} \/ xml = <<>> THEN st
        ELSE check_report_format_keep(
                 check_report_format_add_params(
                     check_report_format_create(
                         [st EXCEPT !.update_mod_time = FALSE], uuid,
                         entity.name),
                     uuid, entity.params, 1),
                 uuid)

RECURSIVE check_report_formats(_, _, _)
check_report_formats(st, ds, order) ==
    IF order = <<>> THEN st
    ELSE check_report_formats(check_report_format(st, ds, Head(order)), ds,
                              Tail(order))

\* The entries of the feed's directory, in an order g_dir_read_name may
\* give them.
FeedEntries(ds) == {d.name : d \in {e \in DOMAIN ds : e.tree = "predefined"}}

Orders(S) ==
    {order \in [1..Cardinality(S) -> S] :
        \A i, j \in 1..Cardinality(S) : i # j => order[i] # order[j]}

\* The end of check_db_report_formats: the global rows that no entry of
\* the feed's directory confirmed are removed with their params, whether
\* or not an alert names them.
check_db_remove_old(walked) ==
    [rows |-> [id \in {r \in DOMAIN walked.rows :
                          \A c \in DOMAIN walked.check :
                              walked.check[c].uuid # walked.rows[r].uuid}
               |-> walked.rows[id]],
     predefined |-> walked.predefined \ DOMAIN walked.check,
     seq |-> walked.seq]

\* The walk of check_db_report_formats over the feed's directory, from
\* the snapshot of the global rows into report_formats_check on.
check_db_walk(rows, ds, order) ==
    check_db_remove_old(
        check_report_formats(
            [rows |-> rows, predefined |-> resources_predefined,
             check |-> [id \in {r \in DOMAIN rows :
                                   rows[r].owner = NoOwner} |-> rows[id]],
             params_check |-> [id \in {r \in DOMAIN rows :
                                          rows[r].owner = NoOwner}
                               |-> rows[id].params],
             update_mod_time |-> FALSE, seq |-> seq_report_formats],
            ds, order))

\* check_db_report_formats: the trash check, the UUID updates, the
\* snapshot of the global rows into report_formats_check, the walk over
\* the feed's directory, and the removal of the global rows that no entry
\* of the directory confirmed.
check_db_report_formats(order) ==
    LET checked == check_db_trash_report_formats(
                       report_formats_trash, alert_method_data_trash,
                       trash_root)
        unique == make_report_format_uuids_unique(
                      update_report_format_uuids(report_formats), dirs,
                      seq_uuid)
        walked == check_db_walk(unique.rows, unique.dirs, order)
    IN  [rows |-> walked.rows, predefined |-> walked.predefined,
         trash |-> checked.trash, alerts_trash |-> checked.alerts_trash,
         dirs |-> unique.dirs, seq |-> walked.seq, minted |-> unique.minted]

\* check_db_report_formats_trash: every numbered entry of the trash
\* directory without a row of that id in report_formats_trash is removed.
check_db_report_formats_trash(ds, trash) ==
    [d \in {e \in DOMAIN ds :
               e.tree = "report_formats_trash" => e.name[2] \in DOMAIN trash}
     |-> ds[d]]

\* The process is up: it did not end in an operation, or it was started
\* again.
Running == crashed.op = "none" \/ crashed.checked

\* Somebody removes GVMD_STATE_DIR/report_formats_trash while the process
\* is down.
TrashDirLost ==
    /\ ~Running
    /\ trash_root
    /\ trash_root' = FALSE
    /\ dirs' = [d \in {e \in DOMAIN dirs : e.tree # "report_formats_trash"}
                |-> dirs[d]]
    /\ last' = Last("lost", 0, 0, 0, 0, NoDir)
    /\ UNCHANGED <<tables, sequences, history, clock>>

\* The directories of the feed with their files.
Feed(ds) == [d \in {e \in DOMAIN ds : e.tree = "predefined"} |-> ds[d]]

\* The start of the process: check_db_report_formats, then
\* check_db_report_formats_trash.
check_db(order) ==
    /\ LET db == check_db_report_formats(order)
       IN  /\ report_formats' = db.rows
           /\ resources_predefined' = db.predefined
           /\ report_formats_trash' = db.trash
           /\ alert_method_data_trash' = db.alerts_trash
           /\ seq_report_formats' = db.seq
           /\ seq_uuid' = db.minted
           /\ dirs' = IF trash_root
                      THEN check_db_report_formats_trash(db.dirs, db.trash)
                      ELSE db.dirs
    /\ crashed' = IF crashed.op = "none" THEN crashed
                  ELSE [crashed EXCEPT !.checked = TRUE]
    /\ last' = Last("startup", 0, 0, 0, 0, NoDir)
    /\ feed_seen' = [ran |-> TRUE, feed |-> Feed(dirs)]
    /\ UNCHANGED <<alert_method_data, seq_report_formats_trash, trash_root,
                   deleted, applying, now>>

Startup ==
    /\ \E order \in Orders(FeedEntries(dirs)) : check_db(order)
    /\ Bounded

\* The feed brings a format, or takes one away, while the process is down
\* or up: the next start sees it.
FeedInstall(uuids, names) ==
    /\ \E uuid \in uuids, name \in names :
           /\ predefined_report_format_dir(uuid) \notin DOMAIN dirs
           /\ dirs' = dirs @@ (predefined_report_format_dir(uuid)
                                 :> FeedFiles(name))
    /\ last' = Last("feed", 0, 0, 0, 0, NoDir)
    /\ UNCHANGED <<tables, sequences, trash_root, history, clock>>

FeedRemove(uuids) ==
    /\ \E uuid \in uuids :
           /\ predefined_report_format_dir(uuid) \in DOMAIN dirs
           /\ dirs' = gvm_file_remove_recurse(
                          dirs, predefined_report_format_dir(uuid))
    /\ last' = Last("feed", 0, 0, 0, 0, NoDir)
    /\ UNCHANGED <<tables, sequences, trash_root, history, clock>>

\* The feed changes report_format.xml of a format it holds.
FeedEdit(uuids, documents) ==
    /\ \E uuid \in uuids, xml \in documents :
           /\ predefined_report_format_dir(uuid) \in DOMAIN dirs
           /\ dirs' = g_file_set_contents(
                          dirs, predefined_report_format_dir(uuid),
                          ConfigName, xml)
    /\ last' = Last("feed", 0, 0, 0, 0, NoDir)
    /\ UNCHANGED <<tables, sequences, trash_root, history, clock>>

\* Time passes.
Tick ==
    /\ now < MaxTime
    /\ now' = now + 1
    /\ last' = Last("tick", 0, 0, 0, 0, NoDir)
    /\ UNCHANGED <<tables, sequences, disk, history, feed_seen>>

(* ------------------------ verify_report_format ------------------------ *)

\* g_base64_encode of the bytes of a file.
g_base64_encode(bytes) ==
    CASE bytes = <<"A">> -> "QQ=="
      [] bytes = <<"B">> -> "Qg=="
      [] bytes = <<"x">> -> "eA=="
      [] bytes = <<"y">> -> "eQ=="
      [] bytes = <<"z">> -> "eg=="
      [] bytes = <<"x", ",", "y">> -> "eCx5"
      [] OTHER -> ""

\* report_format_param_type_name
report_format_param_type_name(type) ==
    CASE type = "BOOLEAN" -> "boolean"
      [] type = "INTEGER" -> "integer"
      [] type = "SELECTION" -> "selection"
      [] type = "STRING" -> "string"
      [] type = "TEXT" -> "text"
      [] type = "REPORT_FORMAT_LIST" -> "report_format_list"
      [] OTHER -> "ERROR"

\* The files that the file iterator of a report format goes through: the
\* entries of the directory of the format, none when there is no row or no
\* directory.
verify_dir_files(report_format) ==
    LET dir == IF report_format_predefined(report_format)
               THEN predefined_report_format_dir(
                        report_formats[report_format].uuid)
               ELSE OwnerDir(report_formats[report_format].owner,
                             report_formats[report_format].uuid)
    IN  IF report_format = 0 THEN {}
        ELSE IF g_file_test(dirs, dir) THEN dirs[dir] ELSE {}

\* Name and file_iterator_content_64 of the files, in the order in which
\* the directory gives them.
verify_format_files(order) ==
    [i \in DOMAIN order |-> <<order[i][1], g_base64_encode(order[i][2])>>]

\* The pieces of the params of the row for the text.
verify_format_params(params) ==
    [i \in DOMAIN params |->
        [name |-> params[i].name,
         type |-> report_format_param_type_name(params[i].type),
         min |-> IF params[i].type_min > LLONG_MIN
                 THEN <<params[i].type_min>> ELSE <<>>,
         max |-> IF params[i].type_max < LLONG_MAX
                 THEN <<params[i].type_max>> ELSE <<>>,
         fallback |-> params[i].fallback,
         options |-> params[i].options]]

\* The text that verify_report_format_internal has verified.
verify_format(found, row, order) ==
    FormatText(IF found.uuid # NULL THEN found.uuid ELSE row.uuid,
               verify_format_files(order), verify_format_params(row.params))

\* A verification against the signature of the row even when the feed has
\* one.
verify_signature_stored_first(found, row, order, verifier) ==
    IF row.signature # NoSignature
    THEN verify_signature(verify_format(found, row, order), row.signature,
                          verifier)
    ELSE IF found.signature # NoSignature
    THEN verify_signature(verify_format(found, row, order), found.signature,
                          verifier)
    ELSE NotVerified(0)

\* The signature block of verify_report_format_internal: the signature of
\* the feed is tried, or else that of the row; without either the trust is
\* unknown.
verify_signature_of(found, row, order, verifier) ==
    IF found.signature # NoSignature
    THEN verify_signature(verify_format(found, row, order), found.signature,
                          verifier)
    ELSE IF row.signature # NoSignature
    THEN verify_signature(verify_format(found, row, order), row.signature,
                          verifier)
    ELSE NotVerified(0)

\* verify_report_format_internal: the result and the rows.
verify_report_format_internal(report_format, verified) ==
    IF verified.ret # 0 THEN [ret |-> -1, rows |-> report_formats]
    ELSE [ret |-> 0,
          rows |-> [report_formats EXCEPT
                       ![report_format].trust = verified.trust,
                       ![report_format].modification_time = now]]

\* verify_report_format: 0 success, 1 failed to find report format,
\* 99 permission denied, -1 error.
verify_report_format(caller, report_format_id, may, verifier, order) ==
    LET report_format ==
            find_report_format_with_permission(report_format_id, caller)
        done(ret, row) ==
            last' = [Last("verify", 0, ret, row, 0, NoDir)
                        EXCEPT !.caller = caller,
                               !.temp =
                                   IF ~may \/ report_format = 0 THEN {}
                                   ELSE verify_signature_of(
                                            find_signature(
                                                dirs,
                                                report_formats[report_format]
                                                    .uuid),
                                            report_formats[report_format],
                                            order, verifier).temp,
                               !.request = [NoRequest EXCEPT
                                               !.uuid = report_format_id,
                                               !.may = may,
                                               !.files = order,
                                               !.verifier = verifier]]
    IN  /\ IF ~may THEN done(99, 0) /\ UNCHANGED report_formats
           ELSE IF report_format = 0
           THEN done(1, 0) /\ UNCHANGED report_formats
           ELSE /\ done(verify_report_format_internal(
                             report_format,
                             verify_signature_of(
                                 find_signature(
                                     dirs, report_formats[report_format].uuid),
                                 report_formats[report_format], order,
                                 verifier)).ret,
                         report_format)
                /\ report_formats'
                     = verify_report_format_internal(
                           report_format,
                           verify_signature_of(
                               find_signature(
                                   dirs, report_formats[report_format].uuid),
                               report_formats[report_format], order,
                               verifier)).rows
        /\ UNCHANGED <<report_formats_trash, resources_predefined,
                       alert_method_data, alert_method_data_trash, sequences,
                       disk, history, clock>>

Verify(callers, uuids, verifiers) ==
    \E caller \in callers, report_format_id \in uuids, may \in BOOLEAN,
       verifier \in verifiers :
        \E order \in Orders(verify_dir_files(
                                find_report_format_with_permission(
                                    report_format_id, caller))) :
            verify_report_format(caller, report_format_id, may, verifier,
                                 order)

(* ------------------------- apply_report_format ------------------------ *)

\* report_format_active
report_format_active(report_format) ==
    IF report_formats[report_format].flags = 1 THEN 1 ELSE 0

\* sql_string of the value of the params of type report_format_list: what
\* the call may give.  It gives the value of the first row of the result,
\* NULL when there is none; the query has no ORDER BY, so any of the rows
\* may be the first.
rf_dependencies_string(report_format) ==
    LET params == IF report_format = 0 THEN <<>>
                  ELSE report_formats[report_format].params
        lists == {i \in DOMAIN params :
                     params[i].type = "REPORT_FORMAT_LIST"}
    IN  IF lists = {} THEN {NULL} ELSE {params[i].value : i \in lists}

\* A lookup that never finds the id in the list.
in_chain_never(used_rfps, report_format_id) == FALSE

\* g_list_find_custom (*used_rfps, report_format_id, strcmp)
in_chain(used_rfps, report_format_id) ==
    \E i \in DOMAIN used_rfps : used_rfps[i].text = report_format_id

\* A removal that leaves the list as it is.
g_list_remove_nothing(used_rfps, pointer) == used_rfps

\* g_list_remove (*used_rfps, report_format_id): the first element that is
\* this pointer.  The pointer of an invocation is the position of its
\* frame.
g_list_remove(used_rfps, pointer) ==
    LET at == {i \in DOMAIN used_rfps : used_rfps[i].pointer = pointer}
        first == CHOOSE i \in at : \A j \in at : i <= j
    IN  IF at = {} THEN used_rfps
        ELSE SubSeq(used_rfps, 1, first - 1)
             \o SubSeq(used_rfps, first + 1, Len(used_rfps))

\* The working directory of the process before any script ran.
PreviousDir == [tree |-> "daemon", owner |-> NoOwner, name |-> NULL]

\* The step of the generation of one report format that fails.
ScriptFault(id, point) == [id |-> id, point |-> point]

NoScriptFault == ScriptFault(NULL, "none")

\* run_report_format_script: 0 success, -1 error, and the working
\* directory it leaves.  root is geteuid () == 0; point is the call that
\* fails.
run_report_format_script(ds, cwd, script_dir, root, point) ==
    IF ~g_file_test(ds, script_dir)
       \/ "generate" \notin {f[1] : f \in ds[script_dir]}
    THEN [ret |-> -1, cwd |-> cwd]
    ELSE IF point \in {"not_executable", "getcwd", "chdir"}
    THEN [ret |-> -1, cwd |-> cwd]
    ELSE IF root
    THEN IF point \in {"getpwnam", "chown"}
         THEN \* return -1 in the directory of the script
              [ret |-> -1, cwd |-> script_dir]
         ELSE IF point \in {"fork", "wait", "child_exit", "child_signal"}
         THEN \* chdir (previous_dir), its result only gives a warning
              [ret |-> -1, cwd |-> cwd]
         ELSE IF point = "chdir_back"
         THEN [ret |-> -1, cwd |-> script_dir]
         ELSE [ret |-> 0, cwd |-> cwd]
    ELSE IF point = "system" THEN [ret |-> -1, cwd |-> cwd]
    ELSE IF point = "chdir_back" THEN [ret |-> -1, cwd |-> script_dir]
    ELSE [ret |-> 0, cwd |-> cwd]

\* No apply_report_format is running.
NotApplying ==
    [stack |-> <<>>, used_rfps |-> <<>>, calls |-> {}, caller |-> NoOwner,
     unwritable |-> {}, done |-> FALSE, cwd |-> PreviousDir, root |-> FALSE,
     fault |-> NoScriptFault]

\* The frame of an invocation at its first statement.
Frame(report_format_id, chain) ==
    [report_format_id |-> report_format_id, report_format |-> 0,
     pc |-> "enter", rf_dependencies |-> <<>>, current |-> 1,
     subreports |-> {}, chain |-> chain, used |-> <<>>]

Top == applying.stack[Len(applying.stack)]

ChainIds(used_rfps) == {used_rfps[i].text : i \in DOMAIN used_rfps}

ApplyUnchanged ==
    UNCHANGED <<tables, sequences, disk, last, deleted, crashed, clock>>

\* return of the invocation on top of the stack with an output file
\* ("file") or NULL: the caller's loop puts a file into subreports under
\* the dependency and moves on to the next dependency.  The record of the
\* call has the place of the invocation: the position in the list of
\* dependencies of each invocation below it.
apply_return(st, output, why) ==
    LET depth == Len(st.stack)
        frame == st.stack[depth]
        call == [report_format_id |-> frame.report_format_id,
                 depth |-> depth, chain |-> frame.chain,
                 rf_dependencies |-> frame.rf_dependencies,
                 output |-> output, why |-> why,
                 manifest |-> frame.subreports,
                 used_rfps |-> [entry |-> frame.used,
                                return |-> st.used_rfps],
                 path |-> [i \in 1..(depth - 1) |-> st.stack[i].current]]
        popped == SubSeq(st.stack, 1, depth - 1)
        parent == st.stack[depth - 1]
    IN  [st EXCEPT
            !.calls = @ \cup {call},
            !.done = (depth = 1),
            !.stack =
                IF depth = 1 THEN popped
                ELSE [popped EXCEPT
                         ![depth - 1] =
                             [parent EXCEPT
                                 !.subreports =
                                     IF output = "file"
                                     THEN @ \cup {frame.report_format_id}
                                     ELSE @,
                                 !.current = @ + 1]]]

\* From the entry of apply_report_format to the start of its loop: the
\* check of the chain, of the row and of its active flag, and the read of
\* the dependencies.
ApplyEnter ==
    /\ applying.stack # <<>>
    /\ Top.pc = "enter"
    /\ LET depth == Len(applying.stack)
           report_format_id == Top.report_format_id
           report_format ==
               find_report_format_with_permission(report_format_id,
                                                  applying.caller)
       IN  \E string \in rf_dependencies_string(report_format) :
           applying' =
               IF in_chain(applying.used_rfps, report_format_id)
               THEN apply_return(applying, "NULL", "loop")
               ELSE IF report_format = 0
               THEN apply_return(applying, "NULL", "missing")
               ELSE IF report_format_active(report_format) = 0
               THEN apply_return(applying, "NULL", "inactive")
               ELSE IF string = NULL
               THEN [applying EXCEPT
                        !.stack[depth].report_format = report_format,
                        !.stack[depth].pc = "generate"]
               ELSE [applying EXCEPT
                        !.stack[depth].report_format = report_format,
                        !.stack[depth].pc = "loop",
                        !.stack[depth].rf_dependencies =
                            g_strsplit(string, ","),
                        !.used_rfps =
                            Append(@, [text |-> report_format_id,
                                       pointer |-> depth])]
    /\ ApplyUnchanged

\* mkdtemp fails for the dependencies of this invocation: the loop ends
\* at once.
MkdtempFails ==
    /\ applying.fault.id = Top.report_format_id
    /\ applying.fault.point = "mkdtemp"

\* The loop meets a dependency that subreports already has.
ApplySkip ==
    /\ applying.stack # <<>>
    /\ Top.pc = "loop"
    /\ ~MkdtempFails
    /\ Top.current <= Len(Top.rf_dependencies)
    /\ Top.rf_dependencies[Top.current] \in Top.subreports
    /\ applying' = [applying EXCEPT
                       !.stack[Len(applying.stack)].current = @ + 1]
    /\ ApplyUnchanged

\* The loop calls apply_report_format for a dependency.
ApplyCall ==
    /\ applying.stack # <<>>
    /\ Top.pc = "loop"
    /\ ~MkdtempFails
    /\ Top.current <= Len(Top.rf_dependencies)
    /\ Top.rf_dependencies[Top.current] \notin Top.subreports
    /\ Len(applying.stack) < MaxDepth
    /\ applying' = [applying EXCEPT
                       !.stack =
                           Append(@, [Frame(Top.rf_dependencies[Top.current],
                                            ChainIds(applying.used_rfps))
                                         EXCEPT !.used = applying.used_rfps])]
    /\ ApplyUnchanged

\* The end of the loop, after the last dependency or at the break.
ApplyLoopEnd ==
    /\ applying.stack # <<>>
    /\ Top.pc = "loop"
    /\ Top.current > Len(Top.rf_dependencies) \/ MkdtempFails
    /\ applying' = [applying EXCEPT
                       !.stack[Len(applying.stack)].pc = "generate",
                       !.used_rfps =
                           g_list_remove(@, Len(applying.stack))]
    /\ ApplyUnchanged

\* The directory of the script of a report format.
script_dir_of(report_format) ==
    IF report_format_predefined(report_format)
    THEN predefined_report_format_dir(report_formats[report_format].uuid)
    ELSE OwnerDir(report_formats[report_format].owner,
                  report_formats[report_format].uuid)

\* The files XML, the output file and the script.  mkstemps fails for the
\* formats of unwritable; the result of run_report_format_script is not
\* looked at.
ApplyGenerate ==
    /\ applying.stack # <<>>
    /\ Top.pc = "generate"
    /\ LET point == IF applying.fault.id = Top.report_format_id
                    THEN applying.fault.point ELSE "none"
           script == run_report_format_script(
                         dirs, applying.cwd,
                         script_dir_of(Top.report_format), applying.root,
                         point)
       IN  applying' =
               IF Top.report_format_id \in applying.unwritable
               THEN apply_return(applying, "NULL", "mkstemps")
               ELSE IF point = "print_report_xml_end"
               THEN apply_return(applying, "NULL", "xml")
               ELSE IF point = "close"
               THEN apply_return([applying EXCEPT !.cwd = script.cwd],
                                 "NULL", "close")
               ELSE apply_return([applying EXCEPT !.cwd = script.cwd],
                                 "file",
                                 IF script.ret = 0 THEN "ok" ELSE "script")
    /\ ApplyUnchanged

(* --------------------------- specifications --------------------------- *)

vars == <<tables, sequences, disk, last, history, clock>>

\* The report format that the feed holds at the first start.
FeedFormat ==
    [uuid |-> FeedUUID, owner |-> NoOwner, name |-> <<"f">>, flags |-> 1,
     modification_time |-> 0, signature |-> NoSignature,
     trust |-> "TRUST_YES", params |-> <<>>]

NoCrash == [op |-> "none", files |-> {}, at |-> {}, checked |-> FALSE]

\* After the first start: the feed's format is in, nobody made a format.
Init ==
    /\ report_formats = (1 :> FeedFormat)
    /\ report_formats_trash = <<>>
    /\ resources_predefined = {1}
    /\ alert_method_data = {}
    /\ alert_method_data_trash = {}
    /\ seq_report_formats = 2
    /\ seq_report_formats_trash = 1
    /\ seq_uuid = 0
    /\ dirs = (predefined_report_format_dir(FeedUUID)
                 :> FeedFiles(<<"f">>))
    /\ trash_root = FALSE
    /\ last = Last("init", 0, 0, 0, 0, NoDir)
    /\ deleted = <<>>
    /\ crashed = NoCrash
    /\ now = 0
    /\ feed_seen = [ran |-> FALSE, feed |-> <<>>]
    /\ applying = NotApplying

\* The calls of the users when every filesystem call works.
CreateRequests ==
    {CreateRequest(<<"U", 1>>, <<"a">>, FilesTwo, ParamsTwo, TRUE, NoFault),
     CreateRequest(<<"U", 1>>, <<"a">>, FilesTwo, ParamsTwo, FALSE,
                   NoFault)}

DeleteRequests ==
    {DeleteRequest(0, TRUE, NoFault), DeleteRequest(1, TRUE, NoFault),
     DeleteRequest(0, TRUE, Fault("exdev", 0)),
     DeleteRequest(1, FALSE, NoFault)}

Next ==
    \/ Create(Users, CreateRequests)
    \/ Delete(Users, DeleteRequests)
    \/ Restore(Users, {NoFault, Fault("exdev", 0)})
    \/ EmptyTrash(Users, {NoFault})
    \/ AlertCreate
    \/ AlertTrash
    \/ AlertDelete

Spec == Init /\ [][Next]_vars

\* The calls that give, change and reuse names.
NameCreateRequests ==
    {CreateRequest(<<"U", 1>>, name, FilesGenerate, ParamsNone, TRUE,
                   NoFault) : name \in Names}

NameRequests ==
    {ModifyRequest(name, NULL, NULL, NullText, NULL, TRUE) : name \in Names}
    \cup {ModifyRequest(NULL, NULL, NULL, NullText, <<"1">>, TRUE),
          ModifyRequest(NULL, NULL, NULL, NullText, <<"2">>, TRUE),
          ModifyRequest(<<"a">>, NULL, NULL, NullText, NULL, FALSE)}

NameBounded == seq_uuid' <= MaxNameMint

NextNames ==
    \/ Create(Users, NameCreateRequests) /\ NameBounded
    \/ Copy(Users, {NULL, <<"a">>}, {TRUE, FALSE}, {NoFault}) /\ NameBounded
    \/ Modify(Users, NameRequests)
    \/ Delete(Users, {DeleteRequest(0, TRUE, NoFault)})
    \/ Restore(Users, {NoFault})

SpecNames == Init /\ [][NextNames]_vars

\* The calls when filesystem calls fail.
CreateFaults ==
    {NoFault, Fault("remove", 0), Fault("mkdir", 0),
     Fault("chmod_owner_dir", 0), Fault("chmod_dir", 0), Fault("write", 1),
     Fault("write", 2), Fault("chmod_file", 1), Fault("chmod_file", 2)}

FaultCreateRequests ==
    {CreateRequest(<<"U", 1>>, <<"a">>, FilesTwo, ParamsNone, TRUE, fault) :
        fault \in CreateFaults}
    \cup {CreateRequest(<<"U", 1>>, <<"a">>, FilesEmptyName, ParamsNone, TRUE,
                        NoFault),
          CreateRequest(<<"U", 1>>, <<"a">>, FilesGenerate, ParamsInvalid,
                        TRUE, NoFault),
          CreateRequest(<<"U", 1>>, <<"a">>, FilesGenerate, ParamsNone, FALSE,
                        NoFault)}

MoveFaults ==
    {NoFault, Fault("rename", 0), Fault("exdev", 0), Fault("exdev_mkdir", 0),
     Fault("exdev_open", 0), FaultMove({}), FaultMove({"aux"})}

CopyFaults ==
    {NoFault, Fault("remove", 0), Fault("mkdir", 0),
     Fault("chmod_owner_dir", 0), Fault("chmod_dir", 0),
     Fault("dir_open", 0), FaultCopy({}), FaultCopy({"generate"})}

FaultDeleteRequests ==
    {DeleteRequest(0, TRUE, fault) :
        fault \in MoveFaults \cup {Fault("mkdir_trash", 0)}}
    \cup {DeleteRequest(1, TRUE, fault) : fault \in {NoFault,
                                                     Fault("remove", 0)}}

NextFaults ==
    \/ Create({"u1"}, FaultCreateRequests) /\ NameBounded
    \/ Copy({"u1"}, {NULL}, {TRUE}, CopyFaults) /\ NameBounded
    \/ Delete({"u1"}, FaultDeleteRequests)
    \/ Restore({"u1"}, MoveFaults)
    \/ EmptyTrash({"u1"}, {NoFault, Fault("remove", 1), Fault("remove", 2)})

SpecFaults == Init /\ [][NextFaults]_vars

\* One report format with two files that is trashed and restored again
\* and again while the moves of its directory may fail.
MaxMoveId == 4

MoveBounded ==
    /\ seq_report_formats' <= MaxMoveId + 1
    /\ seq_report_formats_trash' <= MaxMoveId
    /\ seq_uuid' <= MaxMoveId

NextMove ==
    \/ /\ create_report_format(
              "u1", CreateRequest(<<"U", 1>>, <<"a">>, FilesTwo, ParamsNone,
                                  TRUE, NoFault))
       /\ MoveBounded
    \/ /\ \E fault \in MoveFaults :
              delete_report_format("u1", <<"U", 1>>, 0, TRUE, fault)
       /\ MoveBounded
    \/ /\ \E report_format_id \in KnownUUIDs, fault \in MoveFaults :
              restore_report_format("u1", report_format_id, fault)
       /\ MoveBounded

SpecMove == Init /\ [][NextMove]_vars

\* Creates with one UUID, copies, deletes and restores of one user.
NextUnique ==
    \/ Create({"u1"}, {CreateRequest(<<"U", 1>>, <<"a">>, FilesGenerate,
                                     ParamsNone, TRUE, NoFault)})
    \/ Copy({"u1"}, {NULL}, {TRUE}, {NoFault})
    \/ Delete({"u1"}, {DeleteRequest(0, TRUE, NoFault),
                       DeleteRequest(1, TRUE, NoFault)})
    \/ Restore({"u1"}, {NoFault})

SpecUnique == Init /\ [][NextUnique]_vars

\* A process that ends once between a directory move and its commit.
NextCrash ==
    \/ Running /\ Create({"u1"}, CreateRequests)
    \/ Running /\ Delete({"u1"}, {DeleteRequest(0, TRUE, NoFault),
                                  DeleteRequest(1, TRUE, NoFault)})
    \/ Running /\ Restore({"u1"}, {NoFault})
    \/ /\ crashed.op = "none"
       /\ Delete({"u1"}, {DeleteRequest(0, TRUE, Fault("crash", 0))})
       /\ crashed'.op # "none"
    \/ /\ crashed.op = "none"
       /\ Restore({"u1"}, {Fault("crash", 0)})
       /\ crashed'.op # "none"
    \/ TrashDirLost
    \/ ~Running /\ Startup

SpecCrash == Init /\ [][NextCrash]_vars

\* Starts of the process between the calls of a user, with a feed that
\* brings and takes away a format with the UUID the user asks for.
FeedBounded ==
    /\ seq_report_formats' <= MaxFeedId + 1
    /\ seq_report_formats_trash' <= MaxTrashId + 1
    /\ seq_uuid' <= MaxMint

FeedStartup ==
    \E order \in Orders(FeedEntries(dirs)) : check_db(order)

NextFeed ==
    \/ /\ create_report_format(
              "u1", CreateRequest(<<"U", 1>>, <<"a">>, FilesGenerate,
                                  ParamsSelection, TRUE, NoFault))
       /\ FeedBounded
    \/ /\ \E report_format_id \in KnownUUIDs :
              delete_report_format("u1", report_format_id, 0, TRUE, NoFault)
       /\ FeedBounded
    \/ /\ \E report_format_id \in KnownUUIDs :
              restore_report_format("u1", report_format_id, NoFault)
       /\ FeedBounded
    \/ FeedInstall({<<"U", 1>>}, {<<" ", "g">>})
    \/ FeedRemove({<<"U", 1>>})
    \/ FeedStartup /\ FeedBounded

SpecFeed == Init /\ [][NextFeed]_vars

\* Starts of the process over a feed of two formats whose documents
\* change between the starts: no param, one param, a param with another
\* value, with another default, with a value that differs in white space
\* only, and two params.
SyncDocuments ==
    {<<"f">>,
     <<"f", "|", "a", "|", "a">>,
     <<"f", "|", "b", "|", "a">>,
     <<"f", "|", "a", " ", "|", "a">>,
     <<"f", "|", "a", "|", "b">>,
     <<"f", "|", "a", "|", "a", "|", "c", "|", "c">>}

NextSync ==
    \/ FeedInstall({<<"F", 2>>}, SyncDocuments)
    \/ FeedEdit({FeedUUID, <<"F", 2>>}, SyncDocuments)
    \/ Tick
    \/ FeedStartup /\ FeedBounded

SpecSync == Init /\ [][NextSync]_vars

\* Starts of the process over a feed that withdraws a format and brings
\* it back, while alerts name the format.
NextRetire ==
    \/ FeedInstall({FeedUUID, <<"F", 2>>}, {<<"f">>})
    \/ FeedRemove({FeedUUID, <<"F", 2>>})
    \/ AlertCreate
    \/ AlertTrash
    \/ AlertDelete
    \/ FeedStartup /\ FeedBounded

SpecRetire == Init /\ [][NextRetire]_vars

\* Calls of create_report_format with and without a signature, over a feed
\* that may hold a signature for the UUID <<"U", 1>>, and a private link
\* from <<"U", 2>> to that signature.  The files come in both orders, and
\* two of them may have the same name.
FilesTwoReversed == << <<"generate", "QQ==">>, <<"aux", "Qg==">> >>
FilesSameName == << <<"aux", "QQ==">>, <<"aux", "Qg==">> >>
FilesSameNameReversed == << <<"aux", "Qg==">>, <<"aux", "QQ==">> >>

SignFiles ==
    {FilesTwo, FilesTwoReversed, FilesSameName, FilesSameNameReversed}

\* Signatures: of the known key over the text of a format with the files
\* aux and generate, and over that of one with two files named aux; of
\* the known key over another text; of a key that gpgv does not know.
SignSignatures ==
    {Signature("trusted", FormatText(<<"U", 1>>, FilesTwo, <<>>)),
     Signature("trusted", FormatText(<<"U", 1>>, FilesSameName, <<>>)),
     Signature("trusted", FormatText(<<"U", 9>>, FilesTwo, <<>>)),
     Signature("other", FormatText(<<"U", 1>>, FilesTwo, <<>>))}

SignVerifiers ==
    {VerifierRuns, Verifier("signal", 0), Verifier("spawn", 0),
     Verifier("spawn", 256), Verifier("mkstemp", 0),
     Verifier("write_installer", 0), Verifier("mkstemp_signature", 0),
     Verifier("write_signature", 0)}

SignedRequest(uuid, files, signature, verifier) ==
    [CreateRequest(uuid, <<"a">>, files, ParamsNone, TRUE, NoFault)
        EXCEPT !.signature = signature, !.verifier = verifier]

SignRequests ==
    {SignedRequest(uuid, files, signature, VerifierRuns) :
        uuid \in {<<"U", 1>>, <<"U", 2>>}, files \in SignFiles,
        signature \in SignSignatures \cup {NoSignature}}
    \cup {SignedRequest(<<"U", 1>>, FilesTwo, signature, verifier) :
             signature \in SignSignatures \cup {NoSignature},
             verifier \in SignVerifiers}

FeedSignatures ==
    {Signature("trusted", FormatText(<<"U", 1>>, FilesTwo, <<>>)),
     Signature("trusted", FormatText(<<"U", 9>>, FilesTwo, <<>>))}

\* The feed gets a signature for a UUID, or loses it.
FeedSign(uuids, signatures) ==
    /\ \E uuid \in uuids, signature \in signatures :
           dirs' = IF g_file_test(dirs, SignatureFile("nvt", uuid))
                   THEN gvm_file_remove_recurse(
                            dirs, SignatureFile("nvt", uuid))
                   ELSE dirs @@ (SignatureFile("nvt", uuid)
                                   :> {<<"asc", signature>>})
    /\ last' = Last("feed", 0, 0, 0, 0, NoDir)
    /\ UNCHANGED <<tables, sequences, trash_root, history, clock>>

SignBounded ==
    /\ seq_report_formats' <= 3
    /\ seq_uuid' <= MaxMint

InitSign ==
    /\ report_formats = (1 :> FeedFormat)
    /\ report_formats_trash = <<>>
    /\ resources_predefined = {1}
    /\ alert_method_data = {}
    /\ alert_method_data_trash = {}
    /\ seq_report_formats = 2
    /\ seq_report_formats_trash = 1
    /\ seq_uuid = 0
    /\ dirs = (predefined_report_format_dir(FeedUUID) :> FeedFiles(<<"f">>))
              @@ (SignatureFile("signatures", <<"U", 2>>)
                    :> {<<"link", <<"U", 1>> >>})
    /\ trash_root = FALSE
    /\ last = Last("init", 0, 0, 0, 0, NoDir)
    /\ deleted = <<>>
    /\ crashed = NoCrash
    /\ now = 0
    /\ feed_seen = [ran |-> FALSE, feed |-> <<>>]
    /\ applying = NotApplying

NextSign ==
    \/ \E r \in SignRequests :
           create_report_format("u1", r) /\ SignBounded
    \/ FeedSign({<<"U", 1>>}, FeedSignatures)
    \/ Verify({"u1"}, {<<"U", 1>>, <<"U", 9>>},
              {VerifierRuns, Verifier("mkstemp", 0),
               Verifier("write_signature", 0)})

SpecSign == InitSign /\ [][NextSign]_vars

\* Calls of create_report_format with a UUID that a row may have already,
\* live or trashed, over a feed that may have the signature file of
\* <<"U", 1>> and with the private link from <<"U", 2>> to it.
ClashRequests ==
    {CreateRequest(uuid, <<"a">>, FilesGenerate, ParamsNone, TRUE, NoFault) :
        uuid \in {<<"U", 1>>, <<"U", 2>>}}

NextClash ==
    \/ Create({"u1"}, ClashRequests)
    \/ Delete({"u1"}, {DeleteRequest(0, TRUE, NoFault)})
    \/ FeedSign({<<"U", 1>>},
                {Signature("trusted",
                           FormatText(<<"U", 1>>, FilesGenerate, <<>>))})

SpecClash == InitSign /\ [][NextClash]_vars

\* Report formats with and without a private signature link that are
\* trashed and then removed for good, while alerts that name them are
\* made and trashed.
NextPurge ==
    \/ Create({"u1"}, ClashRequests)
    \/ Delete({"u1"}, {DeleteRequest(0, TRUE, NoFault),
                       DeleteRequest(1, TRUE, NoFault),
                       DeleteRequest(1, TRUE, Fault("remove", 0))})
    \/ AlertCreate
    \/ AlertTrash

SpecPurge == InitSign /\ [][NextPurge]_vars

\* Calls of create_report_format by two users with the name a and with a
\* name that already ends in a number, and deletions that free names.
SuffixRequests ==
    {CreateRequest(<<"U", 1>>, name, FilesGenerate, ParamsNone, TRUE,
                   NoFault) : name \in {<<"a">>, <<"a", " ", "2">>}}

SuffixBounded ==
    /\ seq_report_formats' <= MaxSuffixId + 1
    /\ seq_uuid' <= MaxSuffixId

NextSuffix ==
    \/ \E caller \in Users, r \in SuffixRequests :
           create_report_format(caller, r) /\ SuffixBounded
    \/ \E report_format_id \in KnownUUIDs :
           delete_report_format("u1", report_format_id, 1, TRUE, NoFault)

SpecSuffix == Init /\ [][NextSuffix]_vars

\* Copies of a report format that has an integer param and a selection
\* param with two options, and values set for the selection param.
NextCopy ==
    \/ Create({"u1"}, {CreateRequest(<<"U", 1>>, <<"a">>, FilesGenerate,
                                     ParamsTwo, TRUE, NoFault)})
    \/ Copy({"u1"}, {NULL, <<"b">>}, {TRUE}, {NoFault})
    \/ Modify({"u1"},
              {ModifyRequest(NULL, NULL, <<"p">>, value, NULL, TRUE) :
                  value \in {"eA==", "eQ==", "eg=="}})

SpecCopy == Init /\ [][NextCopy]_vars

\* Calls of modify_report_format that set each field alone, a param value
\* that is valid, one that is not and a param that no format has, and
\* fields together with a param, on a format with two params, while time
\* passes.
ModifyFieldRequests ==
    {ModifyRequest(<<"b">>, NULL, NULL, NullText, NULL, TRUE),
     [ModifyRequest(NULL, NULL, NULL, NullText, NULL, TRUE)
         EXCEPT !.summary = <<"s">>],
     ModifyRequest(NULL, <<"0">>, NULL, NullText, NULL, TRUE),
     ModifyRequest(NULL, <<"1">>, NULL, NullText, NULL, TRUE),
     ModifyRequest(NULL, NULL, NULL, NullText, <<"1">>, TRUE),
     ModifyRequest(NULL, NULL, NULL, NullText, <<"0">>, TRUE),
     ModifyRequest(NULL, NULL, <<"p">>, "eQ==", NULL, TRUE),
     ModifyRequest(NULL, NULL, <<"p">>, "eg==", NULL, TRUE),
     ModifyRequest(NULL, NULL, <<"q">>, "eQ==", NULL, TRUE),
     ModifyRequest(<<"b">>, NULL, <<"p">>, "eg==", NULL, TRUE),
     ModifyRequest(NULL, <<"1">>, <<"q">>, "eQ==", NULL, TRUE),
     ModifyRequest(<<"b">>, NULL, NULL, NullText, NULL, FALSE),
     ModifyRequest(NULL, NULL, NULL, NullText, <<"2">>, FALSE)}

NextModify ==
    \/ /\ create_report_format(
              "u1", CreateRequest(<<"U", 1>>, <<"a">>, FilesGenerate,
                                  ParamsTwo, TRUE, NoFault))
       /\ seq_uuid' = seq_uuid
    \/ Modify({"u1"}, ModifyFieldRequests)
    \/ Tick

SpecModify == Init /\ [][NextModify]_vars

\* Calls that define params and set their values: an integer param with
\* the bounds 1 and 5, selection params with the name p and different
\* options in two formats, and the param definitions that
\* create_report_format refuses.
IntegerTexts == {<<"0">>, <<"1">>, <<"3">>, <<"5">>, <<"6">>}

IntegerParams(value, fallback) ==
    [params |-> <<[ParamInteger EXCEPT !.value = value,
                                       !.fallback = fallback]>>,
     params_options |-> << <<>> >>]

ParamsOtherSelection ==
    [params |-> <<[ParamSelection EXCEPT !.value = <<"y">>,
                                         !.fallback = <<"z">>]>>,
     params_options |-> << << <<"y">>, <<"z">> >> >>]

\* The decimal text of LLONG_MIN and of LLONG_MAX.
TextOfMin == <<"-", "2", "1", "4", "7", "4", "8", "3", "6", "4", "8">>
TextOfMax == <<"2", "1", "4", "7", "4", "8", "3", "6", "4", "7">>

RefusedParams ==
    {[params |-> <<[ParamSelection EXCEPT !.type = NullText]>>,
      params_options |-> << << <<"x">>, <<"y">> >> >>],
     [params |-> <<[ParamSelection EXCEPT !.type = "bogus"]>>,
      params_options |-> << << <<"x">>, <<"y">> >> >>],
     [params |-> <<[ParamInteger EXCEPT !.type_min = TextOfMin]>>,
      params_options |-> << <<>> >>],
     [params |-> <<[ParamInteger EXCEPT !.type_max = TextOfMax]>>,
      params_options |-> << <<>> >>],
     [params |-> <<[ParamSelection EXCEPT !.fallback = NULL]>>,
      params_options |-> << << <<"x">>, <<"y">> >> >>],
     [params |-> <<ParamSelection, ParamSelection>>,
      params_options |-> << << <<"x">>, <<"y">> >>,
                            << <<"x">>, <<"y">> >> >>],
     ParamsInvalid,
     [params |-> <<[ParamSelection EXCEPT !.fallback = <<"z">>]>>,
      params_options |-> << << <<"x">>, <<"y">> >> >>],
     [params |-> <<[ParamSelection EXCEPT !.value = <<"z">>,
                                          !.fallback = <<"z">>]>>,
      params_options |-> << << <<"x">>, <<"y">> >> >>]}

ParamCreateRequests ==
    {CreateRequest(<<"U", 1>>, <<"a">>, FilesGenerate,
                   IntegerParams(value, <<"3">>), TRUE, NoFault) :
        value \in IntegerTexts}
    \cup {CreateRequest(<<"U", 1>>, <<"a">>, FilesGenerate,
                        IntegerParams(<<"3">>, fallback), TRUE, NoFault) :
             fallback \in IntegerTexts}
    \cup {CreateRequest(<<"U", 1>>, <<"a">>, FilesGenerate, ParamsSelection,
                        TRUE, NoFault),
          CreateRequest(<<"U", 2>>, <<"a">>, FilesGenerate,
                        ParamsOtherSelection, TRUE, NoFault)}
    \cup {CreateRequest(<<"U", 1>>, <<"a">>, FilesGenerate, array, TRUE,
                        NoFault) : array \in RefusedParams}

ParamModifyRequests ==
    {ModifyRequest(NULL, NULL, <<"n">>, value, NULL, TRUE) :
        value \in {"MA==", "MQ==", "Mw==", "NQ==", "Ng=="}}
    \cup {ModifyRequest(NULL, NULL, <<"p">>, value, NULL, TRUE) :
             value \in {"eA==", "eQ==", "eg==", "WA=="}}

NextParams ==
    \/ Create({"u1"}, ParamCreateRequests)
    \/ Modify({"u1"}, ParamModifyRequests)

SpecParams == Init /\ [][NextParams]_vars

\* Calls by a user who may and by one who may not do what is asked, with
\* inputs that are in order and with inputs that have a defect of their
\* own: a signature with a param whose min is the least long long, a
\* verifier whose temporary file cannot be made, a predefined marker that
\* is neither 0 nor 1, a report format that does not exist.
DeniedSignature ==
    Signature("trusted", FormatText(<<"U", 1>>, FilesGenerate, <<>>))

DeniedCreateRequests ==
    {CreateRequest(<<"U", 1>>, <<"a">>, FilesGenerate, ParamsNone, may,
                   NoFault) : may \in BOOLEAN}
    \cup {[CreateRequest(<<"U", 1>>, <<"a">>, FilesGenerate,
                         [params |-> <<[ParamInteger
                                          EXCEPT !.type_min = TextOfMin]>>,
                          params_options |-> << <<>> >>], FALSE, NoFault)
              EXCEPT !.signature = DeniedSignature],
          [CreateRequest(<<"U", 1>>, <<"a">>, FilesGenerate, ParamsNone,
                         FALSE, NoFault)
              EXCEPT !.signature = DeniedSignature,
                     !.verifier = Verifier("mkstemp", 0)]}

DeniedModifyRequests ==
    {ModifyRequest(<<"b">>, NULL, NULL, NullText, NULL, may) :
        may \in BOOLEAN}
    \cup {ModifyRequest(NULL, NULL, NULL, NullText, <<"2">>, FALSE)}

NextDenied ==
    \/ \E r \in DeniedCreateRequests :
           /\ create_report_format("u1", r)
           /\ seq_report_formats' <= 3
    \/ /\ Copy({"u1"}, {NULL}, BOOLEAN, {NoFault})
       /\ seq_report_formats' <= 4
    \/ Modify({"u1"}, DeniedModifyRequests)
    \/ Delete({"u1"}, {DeleteRequest(ultimate, may, NoFault) :
                          ultimate \in {0, 1}, may \in BOOLEAN})
    \/ Verify({"u1"}, {<<"U", 1>>, <<"U", 9>>}, {VerifierRuns})

SpecDenied == InitSign /\ [][NextDenied]_vars

\* apply_report_format of format A for user u1 over the dependencies that
\* the formats A, B and C may name; C may be inactive, and its output file
\* may fail to be made.
ListParam(value) ==
    [name |-> <<"l">>, type |-> "REPORT_FORMAT_LIST", value |-> value,
     type_min |-> LLONG_MIN, type_max |-> LLONG_MAX, fallback |-> <<>>,
     options |-> <<>>]

ApplyFormat(uuid, flags, value) ==
    [uuid |-> uuid, owner |-> "u1", name |-> uuid, flags |-> flags,
     modification_time |-> 0, signature |-> NoSignature,
     trust |-> "TRUST_UNKNOWN", params |-> IF value = NULL THEN <<>> ELSE <<ListParam(value)>>]

DependenciesOfA ==
    {<<"B">>, <<"B", ",", "C">>, <<"A", ",", "C">>, <<"Z", ",", "C">>,
     <<"C", ",", "C">>}
DependenciesOfB == {NULL, <<"A">>, <<"A", ",", "C">>, <<"C">>}
DependenciesOfC == {NULL, <<>>, <<"B">>}

InitApply ==
    /\ \E a \in DependenciesOfA, b \in DependenciesOfB,
          c \in DependenciesOfC, active \in {0, 1} :
           report_formats = (1 :> ApplyFormat(<<"A">>, 1, a)
                             @@ 2 :> ApplyFormat(<<"B">>, 1, b)
                             @@ 3 :> ApplyFormat(<<"C">>, active, c))
    /\ report_formats_trash = <<>>
    /\ resources_predefined = {}
    /\ alert_method_data = {}
    /\ alert_method_data_trash = {}
    /\ seq_report_formats = 4
    /\ seq_report_formats_trash = 1
    /\ seq_uuid = 0
    /\ dirs = [d \in {OwnerDir("u1", uuid) :
                         uuid \in {<<"A">>, <<"B">>, <<"C">>}}
               |-> {<<"generate", <<"A">> >>}]
    /\ trash_root = FALSE
    /\ last = Last("init", 0, 0, 0, 0, NoDir)
    /\ deleted = <<>>
    /\ crashed = NoCrash
    /\ now = 0
    /\ feed_seen = [ran |-> FALSE, feed |-> <<>>]
    /\ \E unwritable \in {{}, {<<"C">>}} :
           applying = [NotApplying EXCEPT
                          !.stack = <<Frame(<<"A">>, {})>>,
                          !.caller = "u1",
                          !.unwritable = unwritable]

NextApply ==
    \/ ApplyEnter
    \/ ApplySkip
    \/ ApplyCall
    \/ ApplyLoopEnd
    \/ ApplyGenerate

\* An invocation that has started goes on: nothing else runs in the
\* thread of the request.
SpecApply == InitApply /\ [][NextApply]_vars /\ WF_vars(NextApply)

\* apply_report_format of format A, which names B once or twice in one
\* list param and may name C in a second one, while one step of the generation of one
\* format fails, as root and as another user, with and without the
\* generate file of B.
ScriptPoints ==
    {"not_executable", "getcwd", "chdir", "getpwnam", "chown", "fork",
     "wait", "child_exit", "child_signal", "system", "chdir_back",
     "print_report_xml_end", "close", "mkdtemp"}

ScriptFaults ==
    {NoScriptFault}
    \cup {ScriptFault(id, point) : id \in {<<"A">>, <<"B">>},
                                   point \in ScriptPoints}

ParamsOfA ==
    {<<ListParam(<<"B">>)>>, <<ListParam(<<"B", ",", "B">>)>>,
     <<ListParam(<<"B">>), [ListParam(<<"C">>) EXCEPT !.name = <<"m">>]>>}

InitScript ==
    /\ \E params \in ParamsOfA :
           report_formats
           = (1 :> [ApplyFormat(<<"A">>, 1, NULL) EXCEPT !.params = params]
              @@ 2 :> ApplyFormat(<<"B">>, 1, NULL)
              @@ 3 :> ApplyFormat(<<"C">>, 1, NULL))
    /\ report_formats_trash = <<>>
    /\ resources_predefined = {}
    /\ alert_method_data = {}
    /\ alert_method_data_trash = {}
    /\ seq_report_formats = 4
    /\ seq_report_formats_trash = 1
    /\ seq_uuid = 0
    /\ \E files \in {{<<"generate", <<"A">> >>}, {}} :
           dirs = (OwnerDir("u1", <<"A">>) :> {<<"generate", <<"A">> >>}
                   @@ OwnerDir("u1", <<"B">>) :> files
                   @@ OwnerDir("u1", <<"C">>) :> {<<"generate", <<"A">> >>})
    /\ trash_root = FALSE
    /\ last = Last("init", 0, 0, 0, 0, NoDir)
    /\ deleted = <<>>
    /\ crashed = NoCrash
    /\ now = 0
    /\ feed_seen = [ran |-> FALSE, feed |-> <<>>]
    /\ \E fault \in ScriptFaults, root \in BOOLEAN :
           applying = [NotApplying EXCEPT
                          !.stack = <<Frame(<<"A">>, {})>>,
                          !.caller = "u1",
                          !.root = root,
                          !.fault = fault]

SpecScript == InitScript /\ [][NextApply]_vars /\ WF_vars(NextApply)

(* ------------------------------- claims ------------------------------ *)

\* C1: after a soft delete and the restore of the trash row it made, the
\* restored format has the name and the parameters (name, type, value,
\* fallback, bounds, options in order) that the format had before the
\* delete, and its directory under the owner holds the same files.
C1_RoundTrip ==
    (last.op = "restore" /\ last.ret = 0) =>
        /\ last.row \in DOMAIN report_formats
        /\ last.trash \in DOMAIN deleted
        /\ LET row == report_formats[last.row]
               before == deleted[last.trash]
               dir == OwnerDir(row.owner, row.uuid)
           IN  /\ row.name = before.name
               /\ row.params = before.params
               /\ g_file_test(dirs, dir)
               /\ dirs[dir] = before.files

\* A format with two files, an integer and a selection parameter with
\* options was deleted and restored.
C1_Witness ==
    /\ last.op = "restore"
    /\ last.ret = 0
    /\ last.row \in DOMAIN report_formats
    /\ Len(report_formats[last.row].params) = 2
    /\ Len(report_formats[last.row].params[2].options) = 2
    /\ Cardinality(deleted[last.trash].files) = 2

\* Whether an alert_method_data row names the report format, read from the
\* table.
ReferencedByAlert(id) ==
    \E a \in alert_method_data :
        /\ a.data = report_formats[id].uuid
        /\ a.name \in InUseNames

\* A step of delete_report_format that found the row in report_formats.
DeleteOfRow(ultimates) ==
    /\ last'.op = "delete"
    /\ last'.ultimate \in ultimates
    /\ last'.row \in DOMAIN report_formats

\* C4 as stated: a soft delete of an active format that a live alert
\* names returns 1 and changes no row and no directory.
C4_InUseRefused ==
    [][(DeleteOfRow({0}) /\ ReferencedByAlert(last'.row))
        => (last'.ret = 1 /\ UNCHANGED <<tables, disk>>)]_vars

\* C4 amended: a soft delete of an active format that is not predefined and
\* that a live alert names returns 1 and changes no row and no directory;
\* for a predefined one the result is 3.
C4_InUseRefusedUnlessPredefined ==
    [][(DeleteOfRow({0}) /\ ReferencedByAlert(last'.row))
        => /\ UNCHANGED <<tables, disk>>
           /\ last'.ret = IF last'.row \in resources_predefined THEN 3
                          ELSE 1]_vars

\* A soft delete of a user's format that an alert names was refused.
C4_Witness ==
    /\ last.op = "delete"
    /\ last.ultimate = 0
    /\ last.ret = 1
    /\ last.row \in DOMAIN report_formats
    /\ last.row \notin resources_predefined
    /\ ReferencedByAlert(last.row)

\* C7: delete_report_format of an active format that is predefined returns
\* 3 whatever ultimate is, and changes no row and no directory, so the
\* format is neither trashed nor gone.
C7_PredefinedNotDeleted ==
    [][(DeleteOfRow({0, 1}) /\ last'.row \in resources_predefined)
        => (last'.ret = 3 /\ UNCHANGED <<tables, disk>>)]_vars

\* An ultimate delete of the feed's format was refused.
C7_Witness ==
    /\ last.op = "delete"
    /\ last.ultimate = 1
    /\ last.ret = 3
    /\ last.row \in resources_predefined
    /\ last.row \in DOMAIN report_formats

\* C6: modify_report_format by an authenticated user on a format that is
\* predefined is refused with 99 and changes no field of the format.
C6_PredefinedNotModifiedByUser ==
    [][(/\ last'.op = "modify"
        /\ last'.row \in DOMAIN report_formats
        /\ last'.row \in resources_predefined)
        => (last'.ret = 99
            /\ UNCHANGED <<report_formats, resources_predefined>>)]_vars

\* C10: no two active formats of one user have the same name.
C10_NamesUnique ==
    \A i, j \in DOMAIN report_formats :
        (/\ i # j
         /\ report_formats[i].owner \in Users
         /\ report_formats[i].owner = report_formats[j].owner)
        => report_formats[i].name # report_formats[j].name

\* C2: after every operation, failed or not, every active row of a user
\* has its directory report_formats/<owner>/<uuid>, every trash row has
\* its directory report_formats_trash/<id>, and every directory of the two
\* trees has its row.
C2_RowsAndDirsAgree ==
    /\ \A id \in DOMAIN report_formats :
           report_formats[id].owner \in Users
           => g_file_test(dirs, OwnerDir(report_formats[id].owner,
                                         report_formats[id].uuid))
    /\ \A id \in DOMAIN report_formats_trash :
           g_file_test(dirs, report_format_trash_dir(id))
    /\ \A d \in DOMAIN dirs :
           /\ d.tree = "report_formats"
              => \E id \in DOMAIN report_formats :
                     d = OwnerDir(report_formats[id].owner,
                                  report_formats[id].uuid)
           /\ d.tree = "report_formats_trash"
              => \E id \in DOMAIN report_formats_trash :
                     d = report_format_trash_dir(id)

\* C3: a create_report_format that returns a result other than 0 after
\* sql_begin_immediate leaves the tables as they were and leaves no
\* directory of the format it set out to make.
C3_CreateAtomic ==
    [][(last'.op = "create" /\ last'.ret # 0)
        => /\ UNCHANGED tables
           /\ last'.dir # NoDir => ~g_file_test(dirs', last'.dir)]_vars

\* C9: when the process ended in a soft delete or a restore between the
\* directory move and the commit, the files of the format are on disk
\* after the startup checks.
C9_FilesSurviveCrash ==
    (last.op = "startup" /\ crashed.op # "none")
    => \E d \in crashed.at :
           g_file_test(dirs, d) /\ dirs[d] = crashed.files

\* C5: a restore_report_format that finds the trash row returns 3 when a
\* report_formats row of the caller has the name of the trash row, and 4
\* when none has but a report_formats row has the original UUID of the
\* trash row; either way no table and no directory changes.
C5_RestoreConflicts ==
    [][(last'.op = "restore" /\ last'.trash # 0) =>
          LET row == report_formats_trash[last'.trash]
              name_conflict ==
                  \E id \in DOMAIN report_formats :
                      /\ report_formats[id].name = row.name
                      /\ report_formats[id].owner = row.owner
              uuid_conflict ==
                  \E id \in DOMAIN report_formats :
                      report_formats[id].uuid = row.original_uuid
          IN  /\ name_conflict =>
                     last'.ret = 3 /\ UNCHANGED <<tables, disk>>
              /\ (~name_conflict /\ uuid_conflict) =>
                     last'.ret = 4 /\ UNCHANGED <<tables, disk>>]_vars

\* A restore was refused with 4: the feed brought a format with the
\* original UUID of the trash row, and no format of the owner has its name.
C5_Witness ==
    /\ last.op = "restore"
    /\ last.ret = 4
    /\ last.trash \in DOMAIN report_formats_trash
    /\ \E id \in DOMAIN report_formats :
           report_formats[id].uuid
           = report_formats_trash[last.trash].original_uuid
    /\ ~\E id \in DOMAIN report_formats :
            /\ report_formats[id].name
               = report_formats_trash[last.trash].name
            /\ report_formats[id].owner
               = report_formats_trash[last.trash].owner

\* The dependencies of an invocation that give a file: those that are not
\* in the chain of the invocations in progress, that the user can get,
\* that are active and whose output file can be made.
Resolvable(call) ==
    ({call.rf_dependencies[i] : i \in DOMAIN call.rf_dependencies}
     \cap {report_formats[id].uuid :
              id \in {r \in DOMAIN report_formats :
                         /\ report_formats[r].owner
                            \in {applying.caller, NoOwner}
                         /\ report_formats[r].flags = 1}})
    \ (call.chain \cup {call.report_format_id} \cup applying.unwritable)

\* C8: apply_report_format comes to its end for every dependency graph;
\* an invocation for an id that is in the chain of the invocations in
\* progress returns no output and makes no further invocation; and the
\* manifest of an invocation that gives a file lists the dependencies
\* outside the chain that are there, active and writable, whatever the
\* other dependencies of the same format are.
C8_ApplyTerminates ==
    /\ <>applying.done
    /\ [](/\ \A i \in DOMAIN applying.stack :
                 applying.stack[i].pc # "enter" =>
                     applying.stack[i].report_format_id
                     \notin applying.stack[i].chain
          /\ \A call \in applying.calls :
                 /\ call.report_format_id \in call.chain =>
                        /\ call.output = "NULL"
                        /\ call.why = "loop"
                        /\ call.manifest = {}
                 /\ call.output = "file" =>
                        call.manifest = Resolvable(call))

\* The apply of A ended, A depends on B, B on A and C: the invocation for
\* A under B returned no output, and the manifest of B lists C.
C8_Witness ==
    /\ applying.done
    /\ \E cyclic, parent \in applying.calls :
           /\ cyclic.report_format_id \in cyclic.chain
           /\ cyclic.output = "NULL"
           /\ cyclic.depth = parent.depth + 1
           /\ parent.output = "file"
           /\ \E i \in DOMAIN parent.rf_dependencies :
                  parent.rf_dependencies[i] = cyclic.report_format_id
           /\ parent.manifest # {}
           /\ parent.manifest \cap (parent.chain
                                    \cup {parent.report_format_id}) = {}

\* C11: an empty_trashcan_report_formats that returns 0 leaves no
\* report_formats_trash row (with its params and options) of the caller and
\* no trash directory of one of those rows, and leaves the trash rows and
\* the directories of everybody else as they were; it returns 0 when the
\* caller has no trash row.
C11_EmptyTrashcan ==
    [][(last'.op = "empty") =>
          LET mine == {id \in DOMAIN report_formats_trash :
                          report_formats_trash[id].owner = last'.caller}
              gone == {report_format_trash_dir(id) : id \in mine}
          IN  /\ mine = {} => last'.ret = 0
              /\ last'.ret = 0 =>
                     /\ DOMAIN report_formats_trash'
                        = DOMAIN report_formats_trash \ mine
                     /\ \A id \in DOMAIN report_formats_trash' :
                            report_formats_trash'[id]
                            = report_formats_trash[id]
                     /\ DOMAIN dirs' = DOMAIN dirs \ gone
                     /\ \A d \in DOMAIN dirs' : dirs'[d] = dirs[d]
                     /\ UNCHANGED report_formats]_vars

\* A user emptied a trash that held a format of theirs while a format of
\* another user stays in the trash with its directory.
C11_Witness ==
    /\ last.op = "empty"
    /\ last.ret = 0
    /\ \E id \in DOMAIN deleted : id \notin DOMAIN report_formats_trash
    /\ \E id \in DOMAIN report_formats_trash :
           /\ report_formats_trash[id].owner # last.caller
           /\ g_file_test(dirs, report_format_trash_dir(id))
    /\ ~\E id \in DOMAIN report_formats_trash :
            report_formats_trash[id].owner = last.caller

\* The documents differ in the value or the default of exactly one param,
\* as check_report_format_add_params reads them.
OneDefaultChanged(old, new) ==
    LET was == check_report_format_parse(old)
        is == check_report_format_parse(new)
        differs(k) ==
            \/ g_strstrip(was.params[k].value)
               # g_strstrip(is.params[k].value)
            \/ g_strstrip(was.params[k].fallback)
               # g_strstrip(is.params[k].fallback)
    IN  /\ was.name = is.name
        /\ Len(was.params) = Len(is.params)
        /\ Cardinality({k \in DOMAIN is.params : differs(k)}) = 1

\* The directories of the feed whose files are not those that the last
\* start found.
FeedChanged ==
    {d \in DOMAIN Feed(dirs) \cup DOMAIN feed_seen.feed :
        \/ d \notin DOMAIN Feed(dirs)
        \/ d \notin DOMAIN feed_seen.feed
        \/ Feed(dirs)[d] # feed_seen.feed[d]}

ConfigOf(files) == (CHOOSE f \in files : f[1] = ConfigName)[2]

\* C12: a start of the process after another one, with no call of a user
\* between them.  When no file of the feed changed since, every report
\* format keeps its modification time.  When the feed changed in one
\* document only, and there in the value or the default of one param (as
\* read, without the white space around it), the format of that document
\* gets the time of the start as its modification time and every other
\* format keeps its own.
C12_RerunKeepsTimes ==
    [][(last'.op = "startup" /\ feed_seen.ran) =>
          /\ FeedChanged = {} =>
                /\ DOMAIN report_formats' = DOMAIN report_formats
                /\ \A id \in DOMAIN report_formats :
                       report_formats'[id].modification_time
                       = report_formats[id].modification_time
          /\ \A d \in FeedChanged :
                (/\ FeedChanged = {d}
                 /\ d \in DOMAIN Feed(dirs) \cap DOMAIN feed_seen.feed
                 /\ OneDefaultChanged(ConfigOf(feed_seen.feed[d]),
                                      ConfigOf(dirs[d])))
                => /\ DOMAIN report_formats' = DOMAIN report_formats
                   /\ \A id \in DOMAIN report_formats :
                          report_formats'[id].modification_time
                          = IF report_formats[id].uuid = d.name THEN now
                            ELSE report_formats[id].modification_time]_vars

\* A start found the second format of the feed as an earlier start left
\* it, and gave the first format, whose param "p" now has another value
\* than the same param of the second, the time of this start.
C12_Witness ==
    /\ last.op = "startup"
    /\ {1, 2} \subseteq DOMAIN report_formats
    /\ report_formats[1].uuid = FeedUUID
    /\ Len(report_formats[1].params) = 1
    /\ Len(report_formats[2].params) = 1
    /\ report_formats[1].params[1].value = <<"b">>
    /\ report_formats[2].params[1].value = <<"a">>
    /\ report_formats[1].modification_time = now
    /\ report_formats[2].modification_time < now
    /\ ConfigOf(feed_seen.feed[predefined_report_format_dir(FeedUUID)])
       = <<"f", "|", "b", "|", "a">>

\* Whether a row of alert_method_data or of alert_method_data_trash names
\* the UUID as the report format of a notice.
NamedByAlert(uuid) ==
    \E a \in alert_method_data \cup alert_method_data_trash :
        /\ a.data = uuid
        /\ a.name \in {"notice_attach_format", "notice_report_format"}

\* C13 as stated: at a start of the process, a global report format whose
\* UUID has no directory in the feed is removed from report_formats,
\* unless a live or trashed alert names it, in which case its row stays as
\* it is.
C13_UnconfirmedKeptWhenInUse ==
    [][(last'.op = "startup") =>
          \A id \in DOMAIN report_formats :
              (/\ report_formats[id].owner = NoOwner
               /\ predefined_report_format_dir(report_formats[id].uuid)
                  \notin DOMAIN dirs)
              => IF NamedByAlert(report_formats[id].uuid)
                 THEN /\ id \in DOMAIN report_formats'
                      /\ report_formats'[id] = report_formats[id]
                 ELSE id \notin DOMAIN report_formats']_vars

\* Whether create_report_format has a signature for the call: that of the
\* caller, or one that find_signature finds.
SignatureAtHand(ds, r) ==
    r.signature # NoSignature \/ find_signature(ds, r.uuid).ret = 0

\* C14: a call of create_report_format with valid inputs, without a
\* signature from the caller and with none to find in the feed or in the
\* private tree, returns 0 and stores the format with the trust Unknown.
C14_UnsignedIsUnknown ==
    [][(/\ last'.op = "create"
        /\ last'.request.may
        /\ last'.request.fault = NoFault
        /\ create_add_params(last'.request.array.params,
                             last'.request.array.params_options,
                             1, <<>>).ret = 0
        /\ ~SignatureAtHand(dirs, last'.request))
       => /\ last'.ret = 0
          /\ last'.row \in DOMAIN report_formats'
          /\ last'.row \notin DOMAIN report_formats
          /\ report_formats'[last'.row].trust = "TRUST_UNKNOWN"]_vars

C14_Witness ==
    /\ last.op = "create"
    /\ last.request.may
    /\ ~SignatureAtHand(dirs, last.request)
    /\ last.ret = 0
    /\ last.row \in DOMAIN report_formats
    /\ report_formats[last.row].trust = "TRUST_UNKNOWN"
    /\ report_formats[last.row].signature = NoSignature

\* The text that create_report_format builds for the call.
CanonicalText(ds, r) ==
    create_format(find_signature(ds, r.uuid), r,
                  create_format_params(r.array.params,
                                       r.array.params_options, 1, <<>>))

\* What the verifier made of the text and the signature of the call: the
\* exit status of gpgv when it ran to its end, 2 for any other outcome.
VerifierOutcome(ds, r) ==
    IF r.verifier.how = "exit"
    THEN gpgv(CanonicalText(ds, r),
              create_format_signature(find_signature(ds, r.uuid), r))
    ELSE 2

\* C15: the verification of the signature never ends the creation.  When
\* create_report_format has a signature, the format is created and stored
\* with the trust Yes after an exit status of 0, No after an exit status
\* of 1, and Unknown after any other outcome of the verifier.
C15_VerificationNeverAborts ==
    [][(/\ last'.op = "create"
        /\ SignatureAtHand(dirs, last'.request))
       => /\ last'.ret = 0
          /\ last'.row \in DOMAIN report_formats'
          /\ report_formats'[last'.row].trust
               = CASE VerifierOutcome(dirs, last'.request) = 0 -> "TRUST_YES"
                   [] VerifierOutcome(dirs, last'.request) = 1 -> "TRUST_NO"
                   [] OTHER -> "TRUST_UNKNOWN"]_vars

\* Whether one files array is the other in some order.
Permutation(a, b) ==
    /\ Len(a) = Len(b)
    /\ \A i \in DOMAIN a :
           Cardinality({j \in DOMAIN a : a[j] = a[i]})
             = Cardinality({j \in DOMAIN b : b[j] = a[i]})

\* Whether no two files of the array have the same name.
DistinctNames(files) ==
    \A i, j \in DOMAIN files : i # j => files[i][1] # files[j][1]

\* Whether the call with the files in this order gets the text and the
\* trust that the call that was made got.
SameTextAndTrust(files) ==
    LET other == [last'.request EXCEPT !.files = files]
    IN  /\ CanonicalText(dirs, other) = CanonicalText(dirs, last'.request)
        /\ create_signature(other).ret = last'.ret
        /\ last'.ret = 0
            => report_formats'[last'.row].trust
                 = create_signature(other).trust

\* C17 as stated: create_report_format builds the same text for every
\* order of the files array, so the trust does not depend on the order.
C17_AnyPermutation ==
    [][(/\ last'.op = "create"
        /\ SignatureAtHand(dirs, last'.request))
       => \A files \in SignFiles :
              Permutation(files, last'.request.files)
              => SameTextAndTrust(files)]_vars

\* C17: create_report_format builds the same text for every order of a
\* files array whose file names differ from each other, so for such an
\* array the trust does not depend on the order of the files.
C17_PermutationOfDistinctNames ==
    [][(/\ last'.op = "create"
        /\ SignatureAtHand(dirs, last'.request)
        /\ DistinctNames(last'.request.files))
       => \A files \in SignFiles :
              Permutation(files, last'.request.files)
              => SameTextAndTrust(files)]_vars

C17_Witness ==
    /\ last.op = "create"
    /\ last.ret = 0
    /\ last.request.files = FilesTwoReversed
    /\ last.request.signature
         = Signature("trusted", FormatText(<<"U", 1>>, FilesTwo, <<>>))
    /\ report_formats[last.row].trust = "TRUST_YES"

\* The trust that goes with an exit status of gpgv.
TrustOf(status) ==
    CASE status = 0 -> "TRUST_YES"
      [] status = 1 -> "TRUST_NO"
      [] OTHER -> "TRUST_UNKNOWN"

\* The signature that the claim has verified: that of the feed when
\* find_signature finds one, else the other one.
FeedFirst(ds, uuid, other) ==
    IF find_signature(ds, uuid).ret = 0
    THEN find_signature(ds, uuid).signature
    ELSE other

\* C16: with a signature of the feed and a signature of the caller (or of
\* the row), create_report_format and verify_report_format verify the text
\* against the signature of the feed only; the signature of the caller or
\* of the row is verified only when the feed has none.
C16_FeedSignatureFirst ==
    [][/\ (/\ last'.op = "create"
            /\ last'.ret = 0
            /\ last'.request.verifier = VerifierRuns
            /\ SignatureAtHand(dirs, last'.request))
           => /\ report_formats'[last'.row].trust
                   = TrustOf(gpgv(CanonicalText(dirs, last'.request),
                                  FeedFirst(dirs, last'.request.uuid,
                                            last'.request.signature)))
              /\ report_formats'[last'.row].signature
                   = FeedFirst(dirs, last'.request.uuid,
                               last'.request.signature)
       /\ (/\ last'.op = "verify"
            /\ last'.ret = 0
            /\ last'.request.verifier = VerifierRuns
            /\ \/ find_signature(dirs, last'.request.uuid).ret = 0
               \/ report_formats[last'.row].signature # NoSignature)
           => report_formats'[last'.row].trust
                = TrustOf(gpgv(verify_format(
                                   find_signature(dirs, last'.request.uuid),
                                   report_formats[last'.row],
                                   last'.request.files),
                               FeedFirst(
                                   dirs, last'.request.uuid,
                                   report_formats[last'.row].signature)))]_vars

C16_Witness ==
    /\ last.op = "verify"
    /\ last.ret = 0
    /\ find_signature(dirs, last.request.uuid).signature
         = Signature("trusted", FormatText(<<"U", 1>>, FilesTwo, <<>>))
    /\ report_formats[last.row].signature
         = Signature("trusted", FormatText(<<"U", 9>>, FilesTwo, <<>>))
    /\ report_formats[last.row].trust = "TRUST_YES"

\* The number that a decimal text of one digit stands for.
NumberOf(text) ==
    CASE text = <<"0">> -> 0
      [] text = <<"1">> -> 1
      [] text = <<"3">> -> 3
      [] text = <<"5">> -> 5
      [] text = <<"6">> -> 6

\* The params of a row that have the name and the type.
TypedParams(row, name, type) ==
    {i \in DOMAIN row.params :
        row.params[i].name = name /\ row.params[i].type = type}

\* Whether the step is a call of modify_report_format that got as far as
\* setting a param of this type of the format.
SetsParam(type) ==
    /\ last'.op = "modify"
    /\ last'.row \in DOMAIN report_formats
    /\ last'.param_name # NULL
    /\ TypedParams(report_formats[last'.row], last'.param_name, type) # {}

\* C18: for an integer param with the bounds min and max, a value v is
\* refused exactly when v < min or v > max, both when the format is
\* created (result 3) and when modify_report_format sets the value
\* (result 4); v = min and v = max are accepted and stored.
C18_IntegerWithinBounds ==
    [][/\ SetsParam("INTEGER")
           => \A i \in TypedParams(report_formats[last'.row],
                                    last'.param_name, "INTEGER") :
                  LET param == report_formats[last'.row].params[i]
                      v == NumberOf(g_base64_decode(last'.param_value))
                  IN  IF v < param.type_min \/ v > param.type_max
                      THEN /\ last'.ret = 4
                           /\ report_formats' = report_formats
                      ELSE /\ last'.ret = 0
                           /\ report_formats'[last'.row].params[i].value
                                = g_base64_decode(last'.param_value)
       /\ \A value \in IntegerTexts :
              (/\ last'.op = "create"
               /\ last'.request.array = IntegerParams(value, <<"3">>))
              => IF NumberOf(value) < 1 \/ NumberOf(value) > 5
                 THEN last'.ret = 3 /\ report_formats' = report_formats
                 ELSE /\ last'.ret = 0
                      /\ report_formats'[last'.row].params[1].value = value
      ]_vars

C18_Witness ==
    /\ last.op = "modify"
    /\ last.param_name = <<"n">>
    /\ last.param_value = "NQ=="
    /\ last.ret = 0
    /\ Len(report_formats[last.row].params) = 1
    /\ report_formats[last.row].params[1].type = "INTEGER"
    /\ report_formats[last.row].params[1].type_max = 5
    /\ report_formats[last.row].params[1].value = <<"5">>

\* C19: for a selection param, a value is accepted exactly when it is, byte
\* for byte, one of the option values of the param; any other value is
\* refused.
C19_SelectionIsAnOption ==
    [][SetsParam("SELECTION")
       => \A i \in TypedParams(report_formats[last'.row],
                                last'.param_name, "SELECTION") :
              LET param == report_formats[last'.row].params[i]
              IN  IF \E o \in DOMAIN param.options :
                         param.options[o] = g_base64_decode(last'.param_value)
                  THEN /\ last'.ret = 0
                       /\ report_formats'[last'.row].params[i].value
                            = g_base64_decode(last'.param_value)
                  ELSE /\ last'.ret = 4
                       /\ report_formats' = report_formats]_vars

\* C20: create_report_format refuses each kind of invalid param definition
\* with a result of its own and stores nothing: 7 for a missing type, 9 for
\* an unknown type name, 6 for a min or max that is the extreme of the
\* type, 5 for a missing fallback, 8 for a name that the format has
\* already, 3 for a value that fails the validation, 4 for a fallback that
\* fails it.
C20_InvalidParamsRefused ==
    [][(/\ last'.op = "create"
        /\ last'.request.array \in RefusedParams)
       => LET param == last'.request.array.params[1]
              options == last'.request.array.params_options[1]
          IN  /\ last'.ret
                   = CASE param.type = NullText -> 7
                       [] param.type = "bogus" -> 9
                       [] param.type_min = TextOfMin -> 6
                       [] param.type_max = TextOfMax -> 6
                       [] param.fallback = NULL -> 5
                       [] Len(last'.request.array.params) = 2 -> 8
                       [] \A o \in DOMAIN options :
                              options[o] # param.value -> 3
                       [] OTHER -> 4
              /\ report_formats' = report_formats
              /\ dirs' = dirs]_vars

\* C21: a call of create_report_format with a UUID that a row has, or
\* that a trashed row has as original UUID, stores the format with a UUID
\* that was made for it and that differs from the given one, in the row
\* and in the name of the directory, and makes the link of that UUID in
\* the private tree, which leads to the signature file that the given
\* UUID leads to.
C21_ClashMintsAndLinks ==
    [][(/\ last'.op = "create"
        /\ last'.ret = 0
        /\ \/ \E id \in DOMAIN report_formats :
                  report_formats[id].uuid = last'.request.uuid
           \/ \E id \in DOMAIN report_formats_trash :
                  report_formats_trash[id].original_uuid
                    = last'.request.uuid)
       => LET new == report_formats'[last'.row].uuid
          IN  /\ last'.row \notin DOMAIN report_formats
              /\ new # last'.request.uuid
              /\ \A id \in DOMAIN report_formats :
                     report_formats[id].uuid # new
              /\ \A id \in DOMAIN report_formats_trash :
                     /\ report_formats_trash[id].uuid # new
                     /\ report_formats_trash[id].original_uuid # new
              /\ g_file_test(dirs', OwnerDir(last'.caller, new))
              /\ ~g_file_test(dirs, OwnerDir(last'.caller, new))
              /\ ~g_file_test(dirs, SignatureFile("signatures", new))
              /\ g_file_test(dirs', SignatureFile("signatures", new))
              /\ find_signature(dirs', new).ret
                   = find_signature(dirs, last'.request.uuid).ret
              /\ find_signature(dirs', new).signature
                   = find_signature(dirs, last'.request.uuid).signature
      ]_vars

C21_Witness ==
    /\ last.op = "create"
    /\ last.ret = 0
    /\ last.request.uuid = <<"U", 2>>
    /\ report_formats[last.row].uuid = MintedUUID(seq_uuid)
    /\ g_file_test(dirs, OwnerDir("u1", MintedUUID(seq_uuid)))
    /\ find_signature(dirs, MintedUUID(seq_uuid)).ret = 0
    /\ find_signature(dirs, MintedUUID(seq_uuid)).uuid = <<"U", 1>>

\* The names of the report formats of a user.
NamesOf(caller) ==
    {report_formats[id].name :
        id \in {i \in DOMAIN report_formats :
                   report_formats[i].owner = caller}}

\* The name followed by a space and the number.
Numbered(name, n) ==
    name \o <<" ">> \o CASE n = 2 -> <<"2">>
                          [] n = 3 -> <<"3">>
                          [] n = 4 -> <<"4">>
                          [] n = 5 -> <<"5">>
                          [] n = 6 -> <<"6">>

C23_CopyHasParamsAndOptions ==
    [][(last'.op = "copy" /\ last'.ret = 0)
       => LET old == find_report_format_with_permission(
                         last'.request.uuid,
                         report_formats'[last'.row].owner)
          IN  /\ last'.row \notin DOMAIN report_formats
              /\ report_formats'[last'.row].params
                   = report_formats[old].params]_vars

\* Whether the modify_report_format step at hand updated a field of the
\* report format it found: the name, the summary, the active flag, the
\* predefined marker or the value of a param.
ModifyUpdated ==
    /\ last'.op = "modify"
    /\ last'.row \in DOMAIN report_formats
    /\ \/ report_formats'[last'.row].name # report_formats[last'.row].name
       \/ report_formats'[last'.row].flags # report_formats[last'.row].flags
       \/ report_formats'[last'.row].params
            # report_formats[last'.row].params
       \/ (last'.row \in resources_predefined')
            # (last'.row \in resources_predefined)
       \/ last'.summary # NULL
       \/ last'.param_name # NULL /\ last'.ret = 0

\* C24: every successful update of a field by modify_report_format (the
\* name, the summary, the active flag, the predefined marker or the value
\* of one param) sets the modification time of the report format to the
\* time of the update.
C24_UpdateSetsModificationTime ==
    [][ModifyUpdated
       => report_formats'[last'.row].modification_time = now]_vars

\* The params of a row that have the name.
NamedParams(row, name) ==
    {i \in DOMAIN row.params : row.params[i].name = name}

\* C25: modify_report_format with a param_name returns 3 exactly when the
\* report format at hand has no param of that name; otherwise the value is
\* validated against the definition of the param of that format, with
\* result 4 and no change when it fails and a change of the value of that
\* one param when it passes, whatever params of the same name other
\* report formats have.
C25_ParamOfTheFormat ==
    [][(/\ last'.op = "modify"
        /\ last'.row \in DOMAIN report_formats
        /\ last'.param_name # NULL)
       => LET row == report_formats[last'.row]
              own == NamedParams(row, last'.param_name)
              value == g_base64_decode(last'.param_value)
          IN  IF own = {}
              THEN last'.ret = 3 /\ report_formats' = report_formats
              ELSE \A i \in own :
                     IF validate_param_value(row.params,
                                             row.params[i].options,
                                             last'.param_name, value) = 0
                     THEN /\ last'.ret = 0
                          /\ report_formats'
                               = [report_formats EXCEPT
                                     ![last'.row].params[i].value = value]
                     ELSE /\ last'.ret = 4
                          /\ report_formats' = report_formats]_vars

\* C26: whenever modify_report_format returns a result other than 0, also
\* 3 or 4 for the param of a call that gave a name, a summary, an active
\* flag or a predefined marker too, no field of the report format differs
\* from what it was before the call.
C26_FailureChangesNothing ==
    [][(last'.op = "modify" /\ last'.ret # 0)
       => /\ report_formats' = report_formats
          /\ resources_predefined' = resources_predefined]_vars

\* Whether a row of alert_method_data_trash names the original UUID of
\* the trashed report format under one of the names of an alert method
\* that takes a report format.
NamedByTrashAlert(trash) ==
    \E a \in alert_method_data_trash :
        /\ a.data = report_formats_trash[trash].original_uuid
        /\ a.name \in {"notice_attach_format", "notice_report_format",
                       "scp_report_format", "send_report_format",
                       "smb_report_format",
                       "verinice_server_report_format"}

\* C27: delete_report_format with ultimate = 1 on a trashed report format
\* returns 1 and changes nothing when a trashed alert names it; otherwise,
\* when it returns 0, the trash row with its params and options, the
\* trash directory and the private signature link <original-uuid>.asc are
\* all gone.
C27_PurgeFromTrash ==
    [][(/\ last'.op = "delete"
        /\ last'.ultimate # 0
        /\ last'.trash \in DOMAIN report_formats_trash)
       => IF NamedByTrashAlert(last'.trash)
          THEN /\ last'.ret = 1
               /\ UNCHANGED <<tables, disk>>
          ELSE last'.ret = 0
               => /\ last'.trash \notin DOMAIN report_formats_trash'
                  /\ ~g_file_test(dirs',
                                  report_format_trash_dir(last'.trash))
                  /\ ~g_file_test(
                         dirs',
                         SignatureFile(
                             "signatures",
                             report_formats_trash[last'.trash]
                                 .original_uuid))
                  /\ UNCHANGED <<report_formats, alert_method_data,
                                 alert_method_data_trash>>]_vars

\* A trashed report format that had a private signature link was removed
\* for good, and the link went with it.
C27_Witness ==
    /\ last.op = "delete"
    /\ last.ultimate = 1
    /\ last.ret = 0
    /\ last.trash # 0
    /\ last.trash \notin DOMAIN report_formats_trash
    /\ ~g_file_test(dirs, SignatureFile("signatures", <<"U", 2>>))
    /\ \E id \in DOMAIN report_formats : report_formats[id].uuid = <<"U", 1>>

\* C28: after a restore_report_format that returns 0, the new row of
\* report_formats has the original UUID (and the owner and the params with
\* their options) of the trash row, the trash row is gone, and the
\* directory report_formats_trash/<id of the trash row> is gone while the
\* directory of the owner with the original UUID holds its files.
C28_RestoreMovesBack ==
    [][(last'.op = "restore" /\ last'.ret = 0)
       => LET old == report_formats_trash[last'.trash]
              trash_dir == report_format_trash_dir(last'.trash)
              dir == OwnerDir(old.owner, old.original_uuid)
          IN  /\ last'.row \notin DOMAIN report_formats
              /\ last'.row \in DOMAIN report_formats'
              /\ report_formats'[last'.row].uuid = old.original_uuid
              /\ report_formats'[last'.row].owner = old.owner
              /\ report_formats'[last'.row].params = old.params
              /\ last'.trash \notin DOMAIN report_formats_trash'
              /\ ~g_file_test(dirs', trash_dir)
              /\ g_file_test(dirs', dir)
              /\ dirs'[dir] = dirs[trash_dir]]_vars

\* A trashed report format with params and options was restored: its row
\* has another UUID than the trash row had, and its directory is where the
\* owner's report formats are.
C28_Witness ==
    /\ last.op = "restore"
    /\ last.ret = 0
    /\ last.row \in DOMAIN report_formats
    /\ last.trash \in DOMAIN deleted
    /\ last.trash \notin DOMAIN report_formats_trash
    /\ report_formats[last.row].uuid = <<"U", 1>>
    /\ Len(report_formats[last.row].params) = 2
    /\ g_file_test(dirs, OwnerDir(report_formats[last.row].owner,
                                  <<"U", 1>>))
    /\ ~g_file_test(dirs, report_format_trash_dir(last.trash))

\* C29: in create_report_format, copy_report_format, modify_report_format,
\* delete_report_format and verify_report_format the permission of the
\* caller is checked first: a caller who lacks it gets 99, and no table
\* and no file changes, whatever other defect the inputs have.
C29_PermissionFirst ==
    [][(/\ last'.op \in {"create", "copy", "modify", "delete", "verify"}
        /\ ~last'.request.may)
       => /\ last'.ret = 99
          /\ UNCHANGED <<tables, disk>>]_vars

\* The directory that the step at hand set out to move: that of the report
\* format for a soft delete, that of the trash row for a restore.
MoveSource ==
    IF last'.op = "delete"
    THEN OwnerDir(report_formats[last'.row].owner,
                  report_formats[last'.row].uuid)
    ELSE report_format_trash_dir(last'.trash)

\* C30: in a soft delete and in a restore the directory is moved after
\* the rows were changed and before the commit; when the move fails, also
\* part-way through the move by hand across devices, the call returns -1
\* after the rollback, and the rows and the content of the source
\* directory are exactly as before.
C30_MoveFailureChangesNothing ==
    [][(/\ \/ /\ last'.op = "delete"
              /\ last'.ultimate = 0
              /\ last'.row \in DOMAIN report_formats
           \/ /\ last'.op = "restore"
              /\ last'.trash \in DOMAIN report_formats_trash
        /\ last'.ret = -1
        /\ crashed' = crashed)
       => /\ UNCHANGED tables
          /\ g_file_test(dirs, MoveSource)
             => /\ g_file_test(dirs', MoveSource)
                /\ dirs'[MoveSource] = dirs[MoveSource]]_vars

\* C31: create_report_format writes the files into the directory of the
\* report format only after the row and all params have passed their
\* checks: a call that is refused for a param (results 3 to 9) has at no
\* point written a file, and the directories of the report formats are as
\* they were.
C31_FilesAfterValidation ==
    [][(last'.op = "create" /\ last'.ret \in 3..9)
       => /\ last'.staged = {}
          /\ \A d \in DOMAIN dirs \cup DOMAIN dirs' :
                 d.tree = "report_formats"
                 => /\ d \in DOMAIN dirs /\ d \in DOMAIN dirs'
                    /\ dirs'[d] = dirs[d]]_vars

\* C32: apply_report_format gives an output file only when the script of
\* the report format ran to a good end: when run_report_format_script
\* fails (no generate file or one that is not executable, a failed chdir
\* or fork, a child that ends badly) it gives no output.
C32_OutputOnlyWhenGenerated ==
    \A call \in applying.calls : call.output = "file" => call.why = "ok"

\* The ids that the params of type report_format_list of a report format
\* name, all of them.
NamedByLists(report_format_id) ==
    UNION {UNION {{g_strsplit(report_formats[r].params[i].value, ",")[k] :
                      k \in DOMAIN g_strsplit(
                                       report_formats[r].params[i].value,
                                       ",")} :
                  i \in {j \in DOMAIN report_formats[r].params :
                            report_formats[r].params[j].type
                            = "REPORT_FORMAT_LIST"}} :
           r \in {id \in DOMAIN report_formats :
                     report_formats[id].uuid = report_format_id}}

\* The report formats that give a file when they are generated: those that
\* the user can get, that are active, and for which no step up to the
\* output file fails.
GivesFile ==
    {report_formats[r].uuid :
        r \in {id \in DOMAIN report_formats :
                  /\ report_formats[id].owner \in {applying.caller, NoOwner}
                  /\ report_formats[id].flags = 1}}
    \ (applying.unwritable
        \cup {id \in {applying.fault.id} :
                 applying.fault.point \in {"print_report_xml_end",
                                           "close"}})

\* C33: apply_report_format expands the dependencies of every param of
\* type report_format_list of the report format: when the format has two
\* such params, the ids of both are generated and are in the manifest.
C33_EveryListParamExpanded ==
    \A call \in applying.calls :
        (/\ call.output = "file"
         /\ applying.fault # ScriptFault(call.report_format_id, "mkdtemp"))
        => ((NamedByLists(call.report_format_id) \cap GivesFile)
            \ (call.chain \cup {call.report_format_id}))
           \subseteq call.manifest

\* The invocations that one invocation made for its dependencies: the
\* calls one level below it, at a position of its list.
SameInvocation(c, d) ==
    /\ c.depth = d.depth
    /\ c.depth > 1
    /\ SubSeq(c.path, 1, c.depth - 2) = SubSeq(d.path, 1, d.depth - 2)

\* C34: within one invocation of apply_report_format every dependency id
\* is generated at most once, however often the list names it and whether
\* or not the first generation gave an output: no two calls that one
\* invocation made for the same id are at different positions of its list.
C34_DependencyGeneratedOnce ==
    \A c, d \in applying.calls :
        (SameInvocation(c, d) /\ c.report_format_id = d.report_format_id)
        => c.path = d.path

\* C35: run_report_format_script leaves the process in the working
\* directory it had before the call on every return path after its chdir
\* into the directory of the script, also when the change of the owner,
\* fork, the wait or the child fails; a chdir back that itself fails is
\* left aside.
C35_WorkingDirectoryRestored ==
    applying.fault.point # "chdir_back" => applying.cwd = PreviousDir

\* C36: verify_signature leaves none of the temporary files it made, on
\* any return path: after a create_report_format or verify_report_format
\* of a caller with the permission, no file of the call is left in /tmp.
C36_TemporaryFilesRemoved ==
    (last.op \in {"create", "verify"} /\ last.request.may)
    => last.temp = {}

\* The directory that a restore moves the trash directory to.
RestoreTarget ==
    OwnerDir(restore_row(last'.trash).owner, restore_row(last'.trash).uuid)

\* C37: a directory operation succeeds when its destination is there
\* already, and the destination then holds the new content only.  For the
\* move back of a restore: when the trash directory and the directory of
\* the report format both exist and no system call is made to fail, the
\* restore succeeds and the directory of the report format holds what
\* the trash directory held.
C37_DestinationReplaced ==
    [][(/\ last'.op = "restore"
        /\ last'.request.fault = NoFault
        /\ last'.trash \in DOMAIN report_formats_trash
        /\ last'.ret \notin {3, 4}
        /\ g_file_test(dirs, report_format_trash_dir(last'.trash))
        /\ g_file_test(dirs, RestoreTarget))
       => /\ last'.ret = 0
          /\ g_file_test(dirs', RestoreTarget)
          /\ dirs'[RestoreTarget]
               = dirs[report_format_trash_dir(last'.trash)]]_vars

\* C38: after any sequence of create, copy, delete and restore no two
\* rows of report_formats have the same UUID, no two rows of the trashcan
\* have the same original UUID, and no row of report_formats has the
\* original UUID of a row of the trashcan.
C38_UUIDsUnique ==
    /\ \A i, j \in DOMAIN report_formats :
           i # j => report_formats[i].uuid # report_formats[j].uuid
    /\ \A i, j \in DOMAIN report_formats_trash :
           i # j => report_formats_trash[i].original_uuid
                    # report_formats_trash[j].original_uuid
    /\ \A i \in DOMAIN report_formats, j \in DOMAIN report_formats_trash :
           report_formats[i].uuid # report_formats_trash[j].original_uuid

\* A create was given the UUID of a report format in the trashcan and
\* made its row under another UUID.
C38_Witness ==
    /\ last.op = "create"
    /\ last.ret = 0
    /\ last.row \in DOMAIN report_formats
    /\ report_formats[last.row].uuid # last.request.uuid
    /\ \E j \in DOMAIN report_formats_trash :
           report_formats_trash[j].original_uuid = last.request.uuid
    /\ ~\E i \in DOMAIN report_formats :
            report_formats[i].uuid = last.request.uuid

\* C39: apply_report_format leaves the list of the caller as it found it:
\* at every return *used_rfps holds the ids it held when the call began,
\* in the same order.
C39_ChainUnchanged ==
    \A call \in applying.calls :
        call.used_rfps.return = call.used_rfps.entry

\* A call for a dependency that began with a list that was not empty,
\* put its own id into the list for its own dependencies, and returned a
\* file.
C39_Witness ==
    \E call \in applying.calls :
        /\ call.depth > 1
        /\ call.used_rfps.entry # <<>>
        /\ call.rf_dependencies # <<>>
        /\ call.output = "file"
        /\ call.used_rfps.return = call.used_rfps.entry

\* C40: restore_report_format ends the transaction of its caller on every
\* return path: it commits when it returns 0 and rolls back when it
\* returns 2, 3, 4 or -1.
C40_RestoreEndsTransaction ==
    (last.op = "restore" /\ last.transaction # "dropped")
    => last.transaction
       = IF last.ret = 0 THEN "sql_commit" ELSE "sql_rollback"

====
